---- MODULE Spec2Model ----
(***************************************************************************)
(* The in-memory driver (package ramcache) of gocache: the store (a map    *)
(* from key to item guarded by a sync.RWMutex), the cache facade           *)
(* (Set, SetWithTTL, Get, Exists, Del, Clear, Close) and the eviction loop *)
(* (cleanupExpiredItems / removeExpiredItems).                             *)
(*                                                                         *)
(* Each store method runs under the store lock, so one store method call   *)
(* is one atomic step.  A facade operation that calls the store twice      *)
(* (Get, Exists, Del: lookup, then delete) is two steps, and other         *)
(* goroutines may run in between.  time.Now() is the variable now; the     *)
(* zero time.Time is ZeroTime, which lies before every clock value.        *)
(***************************************************************************)
EXTENDS Integers, Sequences, FiniteSets, TLC

\* ------------------------------------------------------------------ bounds
MaxTime == 3        \* the clock runs over 1..MaxTime
MaxTTL == 2         \* callers pass TTLs in -1..MaxTTL
MaxOps == 2         \* facade calls started in one behaviour

\* ------------------------------------------------------ domains of inputs
Keys == {"k1", "k2"}
Payloads == {"a", "b"}
Callers == {"c1", "c2"}
TTLs == (-1)..MaxTTL
Patterns == {"*", "k?"}
ZeroTime == 0
NilBytes == "<nil>"
NoErr == << >>

\* ------------------------------------------------------------------ errors
\* An error is the chain of its wrapping layers, outermost first; a layer is
\* the set of errors joined at that layer (errors.Join, fmt.Errorf("%w")).
ErrKeyNotFound == "gocache: key not found"
ErrInvalidTTL == "gocache: invalid TTL"
ErrPatternMatchingNotSupported == "gocache: pattern matching not supported"
AnError == "assert.AnError general error for testing"

NewWithScheme(err) == <<{"gcerrors.Error"}>> \o err
Errorf(msg, err) == <<{msg}>> \o err
Join(a, b) == <<{a, b}>>
\* errors.Is: the target is found somewhere along the Unwrap chain.
Is(err, target) == \E i \in 1..Len(err) : target \in err[i]

KeyNotFoundErr == NewWithScheme(Join(ErrKeyNotFound, "key not found"))

\* A ValidateTTL that lets every TTL through.
ValidateTTL_AcceptsAll(ttl) == NoErr

\* ValidateTTL: a TTL is invalid if it is negative.
ValidateTTL(ttl) == IF ttl < 0 THEN <<{ErrInvalidTTL}>> ELSE NoErr

\* -------------------------------------------------------------------- item
ZeroItem == [Value |-> NilBytes, Expiry |-> ZeroTime, NoExpiry |-> FALSE]

\* An IsExpired that takes an item to be expired at its expiry instant
\* already (not Before in place of After).
IsExpired_AtDeadline(i, t) == IF i.NoExpiry THEN FALSE ELSE t >= i.Expiry

\* item.IsExpired, evaluated when the clock reads t.
IsExpired(i, t) == IF i.NoExpiry THEN FALSE ELSE t > i.Expiry

\* ------------------------------------------------------------------- store
newStore == [k \in {} |-> ZeroItem]

\* A Get that looks at the expiry: an item with the zero Expiry time is
\* reported as not found.
StoreGet_SkipsZeroExpiry(m, key) ==
    IF key \in DOMAIN m /\ m[key].Expiry # ZeroTime
    THEN [item |-> m[key], exists |-> TRUE]
    ELSE [item |-> ZeroItem, exists |-> FALSE]

\* store.Get: item, exists := s.items[key]
StoreGet(m, key) ==
    IF key \in DOMAIN m THEN [item |-> m[key], exists |-> TRUE]
    ELSE [item |-> ZeroItem, exists |-> FALSE]

\* A Set that keeps no key but the one it writes.
StoreSet_DropsOthers(m, key, it) == [k \in {key} |-> it]

\* store.Set: s.items[key] = item
StoreSet(m, key, it) ==
    [k \in (DOMAIN m) \cup {key} |-> IF k = key THEN it ELSE m[k]]

\* A Delete that resets the map when the key is not in it.
StoreDelete_ResetsOnAbsent(m, key) ==
    IF key \in DOMAIN m THEN [k \in (DOMAIN m) \ {key} |-> m[k]]
    ELSE [k \in {} |-> ZeroItem]

\* store.Delete: delete(s.items, key)
StoreDelete(m, key) == [k \in (DOMAIN m) \ {key} |-> m[k]]

\* A Clear that leaves the key "k1" in the map.
StoreClear_KeepsOne(m) == [k \in DOMAIN m \cap {"k1"} |-> m[k]]

StoreClear(m) == [k \in {} |-> ZeroItem]

\* A comparison that puts the items without expiry first.
cmp_NoExpiryFirst(a, b) ==
    IF a.Item.NoExpiry /\ b.Item.NoExpiry THEN 0
    ELSE IF a.Item.NoExpiry THEN -1
    ELSE IF b.Item.NoExpiry THEN 1
    ELSE IF a.Item.Expiry < b.Item.Expiry THEN -1
    ELSE IF a.Item.Expiry > b.Item.Expiry THEN 1
    ELSE 0

\* A comparison that sorts the latest expiry first.
cmp_Descending(a, b) ==
    IF a.Item.NoExpiry /\ b.Item.NoExpiry THEN 0
    ELSE IF a.Item.NoExpiry THEN 1
    ELSE IF b.Item.NoExpiry THEN -1
    ELSE IF a.Item.Expiry > b.Item.Expiry THEN -1
    ELSE IF a.Item.Expiry < b.Item.Expiry THEN 1
    ELSE 0

\* The comparison function handed to slices.SortFunc.
cmp(a, b) ==
    IF a.Item.NoExpiry /\ b.Item.NoExpiry THEN 0
    ELSE IF a.Item.NoExpiry THEN 1
    ELSE IF b.Item.NoExpiry THEN -1
    ELSE IF a.Item.Expiry < b.Item.Expiry THEN -1
    ELSE IF a.Item.Expiry > b.Item.Expiry THEN 1
    ELSE 0

\* All orders in which the entries of m can be listed (map iteration order).
Listings(m) ==
    LET n == Cardinality(DOMAIN m)
    IN  { [i \in 1..n |-> [Key |-> f[i], Item |-> m[f[i]]]] :
            f \in { g \in [1..n -> DOMAIN m] :
                      \A i, j \in 1..n : i # j => g[i] # g[j] } }

IsSortedBy(s) == \A i, j \in 1..Len(s) : i < j => cmp(s[i], s[j]) <= 0

\* store.KeyItemsSortedByExpiry: slices.SortFunc is not stable and the map
\* is listed in any order, so every sorted listing is a possible result.
KeyItemsSortedByExpiry(m) == { s \in Listings(m) : IsSortedBy(s) }

\* ----------------------------------------------------------- serialization
\* A value is described by what its dynamic type is or implements (caps),
\* which of its methods return an error (failing) and the bytes it yields.
CapOrder == <<"string", "bytes", "binary", "text", "json", "stringer", "reader">>
Fallible == {"binary", "text", "json", "reader"}

ValueShapes ==
    { <<{"string"}, {}>>, <<{"bytes"}, {}>>,
      <<{"binary"}, {}>>, <<{"binary"}, {"binary"}>>,
      <<{"text"}, {}>>, <<{"text"}, {"text"}>>,
      <<{"json"}, {}>>, <<{"json"}, {"json"}>>,
      <<{"stringer"}, {}>>,
      <<{"reader"}, {}>>, <<{"reader"}, {"reader"}>>,
      <<{"binary", "stringer"}, {"binary"}>>,
      <<{"text", "json"}, {"json"}>>,
      <<{}, {}>> }

\* Strings come with every payload, the other shapes with one.
Values ==
    { [caps |-> {"string"}, failing |-> {}, bytes |-> p] : p \in Payloads }
    \cup { [caps |-> sh[1], failing |-> sh[2], bytes |-> "a"] :
             sh \in ValueShapes \ {<<{"string"}, {}>>} }

\* The case of the type switch that is taken: the first one that matches.
FirstCap(caps) ==
    IF \E i \in 1..Len(CapOrder) : CapOrder[i] \in caps
    THEN CapOrder[CHOOSE i \in 1..Len(CapOrder) :
                    /\ CapOrder[i] \in caps
                    /\ \A j \in 1..(i - 1) : CapOrder[j] \notin caps]
    ELSE "default"

\* A type switch that drops the error of io.ReadAll and of the marshalers.
Serialize_DropsError(v) ==
    LET c == FirstCap(v.caps)
    IN  IF c = "default"
        THEN [data |-> NilBytes,
              err |-> NewWithScheme(<<{"unsupported value type"}>>)]
        ELSE [data |-> v.bytes, err |-> NoErr]

\* The type switch of ramcache.set: the bytes to store, or an error.
Serialize(v) ==
    LET c == FirstCap(v.caps)
    IN  IF c = "default"
        THEN [data |-> NilBytes,
              err |-> NewWithScheme(<<{"unsupported value type"}>>)]
        ELSE IF c \in Fallible /\ c \in v.failing
        THEN [data |-> NilBytes,
              err |-> NewWithScheme(Errorf(
                        IF c = "reader" THEN "failed to read value"
                        ELSE "failed to marshal value", <<{AnError}>>))]
        ELSE [data |-> v.bytes, err |-> NoErr]

\* The item ramcache.set builds for a TTL, when the clock reads t.
MakeItem(data, expiry, t) ==
    [Value |-> data,
     Expiry |-> IF expiry # 0 THEN t + expiry ELSE ZeroTime,
     NoExpiry |-> FALSE]

\* ------------------------------------------------------------------- state
VARIABLES
    items,      \* store.items: a map from the keys present to their item
    now,        \* the wall clock read by time.Now()
    pc,         \* per caller: "idle", the operation in flight, or "done"
    loc,        \* per caller: the locals of the operation in flight
    ret,        \* per caller: what the finished operation returned
    stopCh,     \* "open" or "closed"
    loop,       \* the eviction goroutine: "select", "walk" or "stopped"
    keyItems,   \* the snapshot removeExpiredItems walks
    idx,        \* position of the walk in keyItems (0: not walking)
    panicked,   \* a goroutine panicked (close of a closed channel)
    wr,         \* history: per key, the last write that reached the store
    ops,        \* history: number of facade calls started
    once,       \* r.once: "new", "running" (inside once.Do) or "done"
    opts,       \* r.opts.CleanupInterval (NoOpts: r.opts is nil)
    made,       \* history: stores, stop channels and loops created by init
    schemes,    \* defaultURLMux.schemes: scheme -> key type -> opener
    mu,         \* store.mu: the goroutine holding Lock, those holding RLock
    sp,         \* per goroutine: its position in a store method
    ticker      \* the period of the eviction goroutine's ticker (NoTicker: none)

\* The fields of the driver instance besides the store, the registry of
\* openers, and the store lock with the positions in the store methods.
life == <<once, opts, made, schemes, ticker>>
lock == <<mu, sp>>

vars == <<items, now, pc, loc, ret, stopCh, loop, keyItems, idx, panicked, wr,
          ops, once, opts, made, schemes, mu, sp, ticker>>

\* Options.CleanupInterval: the values callers pass and the default.
NoOpts == -2
NoTicker == 0
DefaultCleanupInterval == 5
Intervals == (-1)..1

\* A revise that replaces the zero interval only.
revise_KeepsNegative(interval) ==
    IF interval = 0 THEN DefaultCleanupInterval ELSE interval

\* Options.revise
revise(interval) ==
    IF interval <= 0 THEN DefaultCleanupInterval ELSE interval

\* The goroutines that call store methods: the callers and the eviction loop.
Threads == Callers \cup {"loop"}
\* store.mu: the goroutines inside Lock..Unlock and inside RLock..RUnlock.
FreeLock == [writers |-> {}, readers |-> {}]
\* A goroutine that is in no store method and in no set (NoValue: it has no
\* value to serialize).
NoValue == [caps |-> {}, failing |-> {}, bytes |-> NilBytes]
Outside == [method |-> "none", stage |-> "out", key |-> "k1", v |-> NoValue,
            ttl |-> 0, item |-> ZeroItem]

\* A driver instance that init has set up with the default options, no
\* opener registered, no goroutine inside a store method.
Constructed ==
    /\ once = "done"
    /\ opts = revise(0)
    /\ ticker = opts
    /\ made = [store |-> 1, stopCh |-> 1, loop |-> 1]
    /\ schemes = << >>
    /\ mu = FreeLock
    /\ sp = [t \in Threads |-> Outside]

\* History of a key: the operation, the value and the deadline (T + ttl,
\* ZeroTime for ttl = 0) of the last call whose store.Set was executed, and
\* who executed the first store.Delete of the key or store.Clear since then
\* ("none", "Del", "Clear", "Get", "Exists" or "sweep"); over tells that the
\* key had been written before.
NoWrite == [op |-> "none", val |-> NilBytes, exp |-> ZeroTime, del |-> "none",
            over |-> FALSE]
NoLoc == [key |-> "k1", item |-> ZeroItem, exists |-> FALSE, w |-> NoWrite]
NoRet == [op |-> "none", key |-> "k1", val |-> NilBytes, ok |-> FALSE,
          err |-> NoErr]

MarkDeleted(w, ks, by) ==
    [k \in Keys |-> IF k \in ks /\ w[k].op # "none" /\ w[k].del = "none"
                    THEN [w[k] EXCEPT !.del = by] ELSE w[k]]

Init ==
    /\ items = newStore
    /\ now = 1
    /\ pc = [c \in Callers |-> "idle"]
    /\ loc = [c \in Callers |-> NoLoc]
    /\ ret = [c \in Callers |-> NoRet]
    /\ stopCh = "open"
    /\ loop = "select"
    /\ keyItems = << >>
    /\ idx = 0
    /\ panicked = FALSE
    /\ wr = [k \in Keys |-> NoWrite]
    /\ ops = 0
    /\ Constructed

Alive == ~panicked
CanCall(c) == Alive /\ pc[c] = "idle" /\ ops < MaxOps

\* -------------------------------------------------------------------- time
Tick ==
    /\ Alive
    /\ now < MaxTime
    /\ now' = now + 1
    /\ UNCHANGED <<items, pc, loc, ret, stopCh, loop, keyItems, idx, panicked, wr, ops>>
    /\ UNCHANGED <<life, lock>>

\* ------------------------------------------------------------ facade: set
Done(c, r) ==
    /\ pc' = [pc EXCEPT ![c] = "done"]
    /\ ret' = [ret EXCEPT ![c] = r]

\* ramcache.set up to the call of store.Set: the type switch, then the
\* expiry computed from time.Now().
setPrepare(c, op, key, v, ttl) ==
    LET s == Serialize(v)
    IN  IF s.err # NoErr
        THEN /\ Done(c, [NoRet EXCEPT !.op = op, !.key = key, !.err = s.err])
             /\ loc' = loc
        ELSE /\ pc' = [pc EXCEPT ![c] = op]
             /\ loc' = [loc EXCEPT ![c] =
                          [NoLoc EXCEPT !.key = key,
                                        !.item = MakeItem(s.data, ttl, now),
                                        !.w = [op |-> op, val |-> v.bytes,
                                               exp |-> IF ttl = 0 THEN ZeroTime
                                                       ELSE now + ttl,
                                               del |-> "none", over |-> FALSE]]]
             /\ ret' = ret

\* Set(ctx, key, value): return r.set(key, value, 0)
Set(c, key, v) ==
    /\ CanCall(c)
    /\ ops' = ops + 1
    /\ setPrepare(c, "Set", key, v, 0)
    /\ UNCHANGED <<items, now, stopCh, loop, keyItems, idx, panicked, wr>>
    /\ UNCHANGED <<life, lock>>

\* SetWithTTL(ctx, key, value, ttl): ValidateTTL, then r.set(key, value, ttl)
SetWithTTL(c, key, v, ttl) ==
    /\ CanCall(c)
    /\ ops' = ops + 1
    /\ IF ValidateTTL(ttl) # NoErr
       THEN /\ Done(c, [NoRet EXCEPT !.op = "SetWithTTL", !.key = key,
                           !.err = NewWithScheme(Errorf("invalid expiry duration",
                                                        ValidateTTL(ttl)))])
            /\ loc' = loc
       ELSE setPrepare(c, "SetWithTTL", key, v, ttl)
    /\ UNCHANGED <<items, now, stopCh, loop, keyItems, idx, panicked, wr>>
    /\ UNCHANGED <<life, lock>>

\* The last statements of ramcache.set: r.store.Set(key, item); return nil
setStore(c) ==
    /\ Alive
    /\ pc[c] \in {"Set", "SetWithTTL"}
    /\ items' = StoreSet(items, loc[c].key, loc[c].item)
    /\ wr' = [wr EXCEPT ![loc[c].key] =
                [loc[c].w EXCEPT !.over = (wr[loc[c].key].op # "none")]]
    /\ loc' = [loc EXCEPT ![c] = NoLoc]
    /\ Done(c, [NoRet EXCEPT !.op = pc[c], !.key = loc[c].key, !.ok = TRUE])
    /\ UNCHANGED <<now, stopCh, loop, keyItems, idx, panicked, ops>>
    /\ UNCHANGED <<life, lock>>

\* ------------------------------------------------------------ facade: read
\* First statement of Get, Exists and Del: item, exists := r.store.Get(key)
Lookup(c, op, key) ==
    /\ pc' = [pc EXCEPT ![c] = op]
    /\ loc' = [loc EXCEPT ![c] =
                 [NoLoc EXCEPT !.key = key,
                               !.item = StoreGet(items, key).item,
                               !.exists = StoreGet(items, key).exists]]

GetLookup(c, key) ==
    /\ CanCall(c)
    /\ ops' = ops + 1
    /\ Lookup(c, "Get", key)
    /\ UNCHANGED <<items, now, ret, stopCh, loop, keyItems, idx, panicked, wr>>
    /\ UNCHANGED <<life, lock>>

\* A Get that reports an expired item as not found and leaves it in the store.
getOutcome_KeepsExpired(it, exists, t) ==
    IF ~exists \/ IsExpired(it, t)
    THEN [delete |-> FALSE, val |-> NilBytes, ok |-> FALSE, err |-> KeyNotFoundErr]
    ELSE [delete |-> FALSE, val |-> it.Value, ok |-> TRUE, err |-> NoErr]

\* What Get does with the result (it, exists) of its lookup when the clock
\* reads t: a missing or expired item is deleted and reported as not found,
\* any other item's value is returned.
getOutcome(it, exists, t) ==
    IF ~exists \/ IsExpired(it, t)
    THEN [delete |-> TRUE, val |-> NilBytes, ok |-> FALSE, err |-> KeyNotFoundErr]
    ELSE [delete |-> FALSE, val |-> it.Value, ok |-> TRUE, err |-> NoErr]

GetFinish(c) ==
    LET o == getOutcome(loc[c].item, loc[c].exists, now)
    IN  /\ Alive
        /\ pc[c] = "Get"
        /\ IF o.delete
           THEN /\ items' = StoreDelete(items, loc[c].key)
                /\ wr' = MarkDeleted(wr, {loc[c].key}, "Get")
           ELSE UNCHANGED <<items, wr>>
        /\ Done(c, [NoRet EXCEPT !.op = "Get", !.key = loc[c].key,
                                 !.val = o.val, !.ok = o.ok, !.err = o.err])
    /\ loc' = [loc EXCEPT ![c] = NoLoc]
    /\ UNCHANGED <<now, stopCh, loop, keyItems, idx, panicked, ops>>
    /\ UNCHANGED <<life, lock>>

ExistsLookup(c, key) ==
    /\ CanCall(c)
    /\ ops' = ops + 1
    /\ Lookup(c, "Exists", key)
    /\ UNCHANGED <<items, now, ret, stopCh, loop, keyItems, idx, panicked, wr>>
    /\ UNCHANGED <<life, lock>>

\* An Exists that reports a missing key as an error, as Get does.
existsOutcome_ErrorOnAbsent(it, exists, t) ==
    IF exists /\ IsExpired(it, t)
    THEN [delete |-> TRUE, ok |-> FALSE, err |-> NoErr]
    ELSE [delete |-> FALSE, ok |-> exists,
          err |-> IF exists THEN NoErr ELSE KeyNotFoundErr]

\* What Exists does with the result of its lookup when the clock reads t:
\* an expired item is deleted and reported absent.
existsOutcome(it, exists, t) ==
    IF exists /\ IsExpired(it, t)
    THEN [delete |-> TRUE, ok |-> FALSE, err |-> NoErr]
    ELSE [delete |-> FALSE, ok |-> exists, err |-> NoErr]

ExistsFinish(c) ==
    LET o == existsOutcome(loc[c].item, loc[c].exists, now)
    IN  /\ Alive
        /\ pc[c] = "Exists"
        /\ IF o.delete
           THEN /\ items' = StoreDelete(items, loc[c].key)
                /\ wr' = MarkDeleted(wr, {loc[c].key}, "Exists")
           ELSE UNCHANGED <<items, wr>>
        /\ Done(c, [NoRet EXCEPT !.op = "Exists", !.key = loc[c].key,
                                 !.ok = o.ok, !.err = o.err])
    /\ loc' = [loc EXCEPT ![c] = NoLoc]
    /\ UNCHANGED <<now, stopCh, loop, keyItems, idx, panicked, ops>>
    /\ UNCHANGED <<life, lock>>

\* A Del that returns nil for a missing key.
delOutcome_NilOnAbsent(exists) ==
    IF ~exists
    THEN [delete |-> FALSE, ok |-> TRUE, err |-> NoErr]
    ELSE [delete |-> TRUE, ok |-> TRUE, err |-> NoErr]

\* What Del does with the result of its lookup: a missing key is reported
\* as not found, any item found, expired or not, is deleted.
delOutcome(exists) ==
    IF ~exists
    THEN [delete |-> FALSE, ok |-> FALSE, err |-> KeyNotFoundErr]
    ELSE [delete |-> TRUE, ok |-> TRUE, err |-> NoErr]

\* A Del that tells a key that was written and removed since ("expired")
\* from a key that was never written.
DelLookup_TellsEvicted(c, key) ==
    /\ CanCall(c)
    /\ ops' = ops + 1
    /\ IF delOutcome(StoreGet(items, key).exists).delete
       THEN Lookup(c, "Del", key) /\ ret' = ret
       ELSE Done(c, [NoRet EXCEPT !.op = "Del", !.key = key,
                        !.err = IF wr[key].op = "none" THEN KeyNotFoundErr
                                ELSE NewWithScheme(<<{"key expired"}>>)])
            /\ loc' = loc
    /\ UNCHANGED <<items, now, stopCh, loop, keyItems, idx, panicked, wr>>
    /\ UNCHANGED <<life, lock>>

\* Del: the lookup; a missing key is reported at once.
DelLookup(c, key) ==
    /\ CanCall(c)
    /\ ops' = ops + 1
    /\ IF delOutcome(StoreGet(items, key).exists).delete
       THEN Lookup(c, "Del", key) /\ ret' = ret
       ELSE Done(c, [NoRet EXCEPT !.op = "Del", !.key = key,
                        !.err = delOutcome(StoreGet(items, key).exists).err])
            /\ loc' = loc
    /\ UNCHANGED <<items, now, stopCh, loop, keyItems, idx, panicked, wr>>
    /\ UNCHANGED <<life, lock>>

\* A Del that reports an expired item as not found and leaves it to the
\* sweep.
DelFinish_ExpiredAsMissing(c) ==
    /\ Alive
    /\ pc[c] = "Del"
    /\ IF IsExpired(loc[c].item, now)
       THEN /\ UNCHANGED <<items, wr>>
            /\ Done(c, [NoRet EXCEPT !.op = "Del", !.key = loc[c].key,
                                     !.err = KeyNotFoundErr])
       ELSE /\ items' = StoreDelete(items, loc[c].key)
            /\ wr' = MarkDeleted(wr, {loc[c].key}, "Del")
            /\ Done(c, [NoRet EXCEPT !.op = "Del", !.key = loc[c].key, !.ok = TRUE])
    /\ loc' = [loc EXCEPT ![c] = NoLoc]
    /\ UNCHANGED <<now, stopCh, loop, keyItems, idx, panicked, ops>>
    /\ UNCHANGED <<life, lock>>

\* Del after a successful lookup: r.store.Delete(key); return nil
DelFinish(c) ==
    /\ Alive
    /\ pc[c] = "Del"
    /\ items' = StoreDelete(items, loc[c].key)
    /\ wr' = MarkDeleted(wr, {loc[c].key}, "Del")
    /\ Done(c, [NoRet EXCEPT !.op = "Del", !.key = loc[c].key, !.ok = TRUE])
    /\ loc' = [loc EXCEPT ![c] = NoLoc]
    /\ UNCHANGED <<now, stopCh, loop, keyItems, idx, panicked, ops>>
    /\ UNCHANGED <<life, lock>>

\* ------------------------------------------------- facade: the other calls
\* The text fmt.Errorf puts the pattern in.
PatternMsg(p) ==
    IF p = "*" THEN "pattern * not supported" ELSE "pattern k? not supported"

\* Count: return 0 and the error; the pattern is not looked at.
Count(c, pattern) ==
    /\ CanCall(c)
    /\ ops' = ops + 1
    /\ Done(c, [NoRet EXCEPT !.op = "Count",
                   !.err = NewWithScheme(Join(ErrPatternMatchingNotSupported,
                                              "Count operation not supported"))])
    /\ UNCHANGED <<items, now, loc, stopCh, loop, keyItems, idx, panicked, wr>>
    /\ UNCHANGED <<life, lock>>

\* A DelKeys that serves the pattern "*" by emptying the store.
DelKeys_ServesStar(c, pattern) ==
    /\ CanCall(c)
    /\ ops' = ops + 1
    /\ IF pattern = "*"
       THEN /\ items' = StoreClear(items)
            /\ wr' = MarkDeleted(wr, Keys, "Clear")
            /\ Done(c, [NoRet EXCEPT !.op = "DelKeys", !.ok = TRUE])
       ELSE /\ UNCHANGED <<items, wr>>
            /\ Done(c, [NoRet EXCEPT !.op = "DelKeys",
                   !.err = NewWithScheme(Join(ErrPatternMatchingNotSupported,
                                              PatternMsg(pattern)))])
    /\ UNCHANGED <<now, loc, stopCh, loop, keyItems, idx, panicked>>
    /\ UNCHANGED <<life, lock>>

\* DelKeys: return the error.
DelKeys(c, pattern) ==
    /\ CanCall(c)
    /\ ops' = ops + 1
    /\ Done(c, [NoRet EXCEPT !.op = "DelKeys",
                   !.err = NewWithScheme(Join(ErrPatternMatchingNotSupported,
                                              PatternMsg(pattern)))])
    /\ UNCHANGED <<items, now, loc, stopCh, loop, keyItems, idx, panicked, wr>>
    /\ UNCHANGED <<life, lock>>

\* A Ping that reports the cache as closed once Close was called.
Ping_FailsWhenClosed(c) ==
    /\ CanCall(c)
    /\ ops' = ops + 1
    /\ Done(c, IF stopCh = "closed"
               THEN [NoRet EXCEPT !.op = "Ping",
                                  !.err = NewWithScheme(<<{"cache closed"}>>)]
               ELSE [NoRet EXCEPT !.op = "Ping", !.ok = TRUE])
    /\ UNCHANGED <<items, now, loc, stopCh, loop, keyItems, idx, panicked, wr>>
    /\ UNCHANGED <<life, lock>>

\* Ping: return nil
Ping(c) ==
    /\ CanCall(c)
    /\ ops' = ops + 1
    /\ Done(c, [NoRet EXCEPT !.op = "Ping", !.ok = TRUE])
    /\ UNCHANGED <<items, now, loc, stopCh, loop, keyItems, idx, panicked, wr>>
    /\ UNCHANGED <<life, lock>>

\* Clear: r.store.Clear(); return nil
Clear(c) ==
    /\ CanCall(c)
    /\ ops' = ops + 1
    /\ items' = StoreClear(items)
    /\ wr' = MarkDeleted(wr, Keys, "Clear")
    /\ Done(c, [NoRet EXCEPT !.op = "Clear", !.ok = TRUE])
    /\ UNCHANGED <<now, loc, stopCh, loop, keyItems, idx, panicked>>
    /\ UNCHANGED <<life, lock>>

\* A Close that also drops the store.
Close_DropsStore(c) ==
    /\ CanCall(c)
    /\ ops' = ops + 1
    /\ IF stopCh = "closed"
       THEN /\ panicked' = TRUE
            /\ UNCHANGED <<stopCh, pc, ret, items, wr>>
       ELSE /\ stopCh' = "closed"
            /\ panicked' = panicked
            /\ items' = StoreClear(items)
            /\ wr' = MarkDeleted(wr, Keys, "Clear")
            /\ Done(c, [NoRet EXCEPT !.op = "Close", !.ok = TRUE])
    /\ UNCHANGED <<now, loc, loop, keyItems, idx>>
    /\ UNCHANGED <<life, lock>>

\* Close: close(r.stopCh); closing a closed channel panics.
Close(c) ==
    /\ CanCall(c)
    /\ ops' = ops + 1
    /\ IF stopCh = "closed"
       THEN /\ panicked' = TRUE
            /\ UNCHANGED <<stopCh, pc, ret>>
       ELSE /\ stopCh' = "closed"
            /\ panicked' = panicked
            /\ Done(c, [NoRet EXCEPT !.op = "Close", !.ok = TRUE])
    /\ UNCHANGED <<items, now, loc, loop, keyItems, idx, wr>>
    /\ UNCHANGED <<life, lock>>

\* The caller takes the result and is free to call again.
Return(c) ==
    /\ Alive
    /\ pc[c] = "done"
    /\ pc' = [pc EXCEPT ![c] = "idle"]
    /\ ret' = [ret EXCEPT ![c] = NoRet]
    /\ UNCHANGED <<items, now, loc, stopCh, loop, keyItems, idx, panicked, wr, ops>>
    /\ UNCHANGED <<life, lock>>

\* ----------------------------------------------------------- eviction loop
\* cleanupExpiredItems, case <-ticker.C, and the first statement of
\* removeExpiredItems: keyItems := r.store.KeyItemsSortedByExpiry()
SweepTick ==
    /\ Alive
    /\ loop = "select"
    /\ \E s \in KeyItemsSortedByExpiry(items) : keyItems' = s
    /\ idx' = 1
    /\ loop' = "walk"
    /\ UNCHANGED <<items, now, pc, loc, ret, stopCh, panicked, wr, ops>>
    /\ UNCHANGED <<life, lock>>

\* A sweep whose goroutine returns when it has walked an empty snapshot.
SweepStep_StopsOnEmpty ==
    /\ Alive
    /\ loop = "walk"
    /\ IF idx <= Len(keyItems) /\ IsExpired(keyItems[idx].Item, now)
       THEN /\ items' = StoreDelete(items, keyItems[idx].Key)
            /\ wr' = MarkDeleted(wr, {keyItems[idx].Key}, "sweep")
            /\ idx' = idx + 1
            /\ UNCHANGED <<loop, keyItems>>
       ELSE /\ loop' = IF Len(keyItems) = 0 THEN "stopped" ELSE "select"
            /\ keyItems' = << >>
            /\ idx' = 0
            /\ UNCHANGED <<items, wr>>
    /\ UNCHANGED <<now, pc, loc, ret, stopCh, panicked, ops>>
    /\ UNCHANGED <<life, lock>>

\* A sweep that walks its snapshot and deletes nothing.
SweepStep_DeletesNothing ==
    /\ Alive
    /\ loop = "walk"
    /\ IF idx <= Len(keyItems) /\ IsExpired(keyItems[idx].Item, now)
       THEN /\ idx' = idx + 1
            /\ UNCHANGED <<loop, keyItems, items, wr>>
       ELSE /\ loop' = "select"
            /\ keyItems' = << >>
            /\ idx' = 0
            /\ UNCHANGED <<items, wr>>
    /\ UNCHANGED <<now, pc, loc, ret, stopCh, panicked, ops>>
    /\ UNCHANGED <<life, lock>>

\* One iteration of the range loop of removeExpiredItems: delete an expired
\* entry and go on, or leave the loop (break, or end of the slice).
SweepStep ==
    /\ Alive
    /\ loop = "walk"
    /\ IF idx <= Len(keyItems) /\ IsExpired(keyItems[idx].Item, now)
       THEN /\ items' = StoreDelete(items, keyItems[idx].Key)
            /\ wr' = MarkDeleted(wr, {keyItems[idx].Key}, "sweep")
            /\ idx' = idx + 1
            /\ UNCHANGED <<loop, keyItems>>
       ELSE /\ loop' = "select"
            /\ keyItems' = << >>
            /\ idx' = 0
            /\ UNCHANGED <<items, wr>>
    /\ UNCHANGED <<now, pc, loc, ret, stopCh, panicked, ops>>
    /\ UNCHANGED <<life, lock>>

\* cleanupExpiredItems, case <-r.stopCh: return
SweepStop ==
    /\ Alive
    /\ loop = "select"
    /\ stopCh = "closed"
    /\ loop' = "stopped"
    /\ UNCHANGED <<items, now, pc, loc, ret, stopCh, keyItems, idx, panicked, wr, ops>>
    /\ UNCHANGED <<life, lock>>

\* ----------------------------------------------------------- specification
Next ==
    \/ Tick
    \/ \E c \in Callers, k \in Keys, v \in Values : Set(c, k, v)
    \/ \E c \in Callers, k \in Keys, v \in Values, t \in TTLs : SetWithTTL(c, k, v, t)
    \/ \E c \in Callers : setStore(c)
    \/ \E c \in Callers, k \in Keys : GetLookup(c, k)
    \/ \E c \in Callers : GetFinish(c)
    \/ \E c \in Callers, k \in Keys : ExistsLookup(c, k)
    \/ \E c \in Callers : ExistsFinish(c)
    \/ \E c \in Callers, k \in Keys : DelLookup(c, k)
    \/ \E c \in Callers : DelFinish(c)
    \/ \E c \in Callers, p \in Patterns : Count(c, p)
    \/ \E c \in Callers, p \in Patterns : DelKeys(c, p)
    \/ \E c \in Callers : Ping(c)
    \/ \E c \in Callers : Clear(c)
    \/ \E c \in Callers : Close(c)
    \/ \E c \in Callers : Return(c)
    \/ SweepTick
    \/ SweepStep
    \/ SweepStop

Spec == Init /\ [][Next]_vars

\* The scheduling of the eviction goroutine.  The ticker keeps firing and
\* the goroutine is scheduled, so a pending tick is received and a started
\* walk goes on (weak fairness).  select chooses among its ready cases at
\* random: a closed stopCh is ready at every select, so the goroutine does
\* not pass it by for ever (strong fairness; the walks in between disable
\* the case).  Nothing obliges a caller to call.
LiveSpec ==
    /\ Spec
    /\ WF_vars(SweepTick)
    /\ WF_vars(SweepStep)
    /\ SF_vars(SweepStop)

\* The facade on a cache that has been in use: the store holds any items
\* that earlier SetWithTTL and Set calls (made at a clock value up to now)
\* have left, Close may have been called and the eviction goroutine may have
\* returned; the callers are idle and have calls left.
StoredItems(t) ==
    { MakeItem(p, ttl, t0) : p \in Payloads, ttl \in 0..MaxTTL, t0 \in 1..t }

\* The history that goes with an item in the store.
WriteOf(it) ==
    [op |-> IF it.Expiry = ZeroTime THEN "Set" ELSE "SetWithTTL",
     val |-> it.Value, exp |-> it.Expiry, del |-> "none", over |-> FALSE]

FacadeInit ==
    /\ now \in 1..MaxTime
    /\ \E ks \in SUBSET Keys : items \in [ks -> StoredItems(now)]
    /\ wr = [k \in Keys |-> IF k \in DOMAIN items THEN WriteOf(items[k])
                                                 ELSE NoWrite]
    /\ pc = [c \in Callers |-> "idle"]
    /\ loc = [c \in Callers |-> NoLoc]
    /\ ret = [c \in Callers |-> NoRet]
    /\ stopCh \in {"open", "closed"}
    /\ loop \in IF stopCh = "closed" THEN {"select", "stopped"} ELSE {"select"}
    /\ keyItems = << >>
    /\ idx = 0
    /\ panicked = FALSE
    /\ ops = MaxOps - 1
    /\ Constructed

FacadeSpec == FacadeInit /\ [][Next]_vars

\* Two calls on a cache that holds entries: the store holds, for each of
\* the keys, an item written by SetWithTTL with ttl 1 when the clock read 1,
\* and both callers have their call to make.
RaceItems == {MakeItem("a", 1, 1)}

RaceInit ==
    /\ now = 1
    /\ items \in [Keys -> RaceItems]
    /\ wr = [k \in Keys |-> WriteOf(items[k])]
    /\ pc = [c \in Callers |-> "idle"]
    /\ loc = [c \in Callers |-> NoLoc]
    /\ ret = [c \in Callers |-> NoRet]
    /\ stopCh = "open"
    /\ loop = "select"
    /\ keyItems = << >>
    /\ idx = 0
    /\ panicked = FALSE
    /\ ops = 0
    /\ Constructed

RaceSpec == RaceInit /\ [][Next]_vars

\* One sweep on its own: removeExpiredItems applied, with the clock fixed and
\* no caller running, to a store filled directly through store.Set, as the
\* package's tests fill it.
SweepKeys == Keys \cup {"k3"}
SweepItems ==
    { [Value |-> "a", Expiry |-> e, NoExpiry |-> n] :
        e \in ZeroTime..(MaxTime + MaxTTL), n \in BOOLEAN }

SweepInit ==
    /\ \E ks \in SUBSET SweepKeys : items \in [ks -> SweepItems]
    /\ now \in 1..MaxTime
    /\ pc = [c \in Callers |-> "idle"]
    /\ loc = [c \in Callers |-> NoLoc]
    /\ ret = [c \in Callers |-> NoRet]
    /\ stopCh = "open"
    /\ loop = "select"
    /\ keyItems = << >>
    /\ idx = 0
    /\ panicked = FALSE
    /\ wr = [k \in Keys |-> NoWrite]
    /\ ops = 0
    /\ Constructed

SweepNext == SweepTick \/ SweepStep

SweepSpec == SweepInit /\ [][SweepNext]_vars

\* ------------------------------------------------------------------- init
\* What New and OpenCacheURL hand to init: nil, or options with an interval.
OptArgs == Intervals \cup {NoOpts}

\* The function init passes to once.Do, up to r.opts = opts.
initBody(o) ==
    /\ items' = newStore
    /\ opts' = revise(IF o = NoOpts THEN 0 ELSE o)
    /\ made' = [made EXCEPT !.store = @ + 1]

\* An init that runs its function on every invocation.
init_EveryTime(c, o) ==
    /\ Alive
    /\ pc[c] = "idle" /\ ops < MaxOps
    /\ once # "running"
    /\ ops' = ops + 1
    /\ once' = "running"
    /\ initBody(o)
    /\ pc' = [pc EXCEPT ![c] = "init"]
    /\ UNCHANGED <<ret, stopCh, loop>>
    /\ UNCHANGED <<now, loc, keyItems, idx, panicked, wr, schemes, lock, ticker>>

\* ramcache.init: r.once.Do(func). The first invocation runs the function;
\* an invocation that arrives while it runs waits inside once.Do; one that
\* arrives after it returns at once.
init(c, o) ==
    /\ Alive
    /\ pc[c] = "idle" /\ ops < MaxOps
    /\ once # "running"
    /\ ops' = ops + 1
    /\ IF once = "new"
       THEN /\ once' = "running"
            /\ initBody(o)
            /\ pc' = [pc EXCEPT ![c] = "init"]
            /\ UNCHANGED <<ret, stopCh, loop>>
       ELSE /\ pc' = [pc EXCEPT ![c] = "done"]
            /\ ret' = [ret EXCEPT ![c] = [NoRet EXCEPT !.op = "init"]]
            /\ UNCHANGED <<items, opts, made, once, stopCh, loop>>
    /\ UNCHANGED <<now, loc, keyItems, idx, panicked, wr, schemes, lock, ticker>>

\* The rest of the function: r.stopCh = make(chan struct{}) and
\* go r.cleanupExpiredItems(), which begins with
\* ticker := time.NewTicker(r.opts.CleanupInterval); once.Do then marks the
\* Once done.
initFinish(c) ==
    /\ Alive
    /\ pc[c] = "init"
    /\ stopCh' = "open"
    /\ loop' = "select"
    /\ ticker' = opts
    /\ made' = [made EXCEPT !.stopCh = @ + 1, !.loop = @ + 1]
    /\ once' = "done"
    /\ pc' = [pc EXCEPT ![c] = "done"]
    /\ ret' = [ret EXCEPT ![c] = [NoRet EXCEPT !.op = "init", !.ok = TRUE]]
    /\ UNCHANGED <<items, opts, now, loc, keyItems, idx, panicked, wr, ops,
                   schemes, lock>>

\* A driver instance: the zero value (as the package's init registers it
\* and as New starts from), or one that init has set up and that has been
\* in use, its stop channel open or closed.
InitInit ==
    /\ now = 1
    /\ pc = [c \in Callers |-> "idle"]
    /\ loc = [c \in Callers |-> NoLoc]
    /\ ret = [c \in Callers |-> NoRet]
    /\ keyItems = << >>
    /\ idx = 0
    /\ panicked = FALSE
    /\ ops = 0
    /\ schemes = << >>
    /\ mu = FreeLock
    /\ sp = [t \in Threads |-> Outside]
    /\ \/ /\ once = "new"
          /\ items = newStore
          /\ opts = NoOpts
          /\ ticker = NoTicker
          /\ made = [store |-> 0, stopCh |-> 0, loop |-> 0]
          /\ stopCh = "nil"
          /\ loop = "none"
       \/ /\ once = "done"
          /\ \E ks \in SUBSET Keys : items \in [ks -> StoredItems(now)]
          /\ opts \in {revise(IF o = NoOpts THEN 0 ELSE o) : o \in OptArgs}
          /\ ticker = opts
          /\ made = [store |-> 1, stopCh |-> 1, loop |-> 1]
          /\ stopCh \in {"open", "closed"}
          /\ loop \in IF stopCh = "closed" THEN {"select", "stopped"}
                                           ELSE {"select"}
    /\ wr = [k \in Keys |-> IF k \in DOMAIN items THEN WriteOf(items[k])
                                                 ELSE NoWrite]

InitNext ==
    \/ \E c \in Callers, o \in OptArgs : init(c, o)
    \/ \E c \in Callers : initFinish(c)
    \/ \E c \in Callers : Return(c)

InitSpec == InitInit /\ [][InitNext]_vars

\* ----------------------------------------------------------- OpenCacheURL
\* What optionsFromURL makes of a URL: an error, or options with the
\* interval of the query.
URLs == [parses : BOOLEAN, cleanupinterval : Intervals]

URLParseErr ==
    NewWithScheme(Errorf("failed to parse URL", <<{AnError}>>))

\* An OpenCacheURL that sets the instance up anew on every call.
OpenCacheURL_SetsUpAnew(c, u) ==
    /\ Alive
    /\ pc[c] = "idle" /\ ops < MaxOps
    /\ once # "running"
    /\ ops' = ops + 1
    /\ IF ~u.parses
       THEN /\ Done(c, [NoRet EXCEPT !.op = "OpenCacheURL", !.err = URLParseErr])
            /\ UNCHANGED <<items, opts, made, once>>
       ELSE /\ once' = "running"
            /\ initBody(u.cleanupinterval)
            /\ pc' = [pc EXCEPT ![c] = "open"]
            /\ ret' = ret
    /\ UNCHANGED <<now, loc, stopCh, loop, keyItems, idx, panicked, wr,
                   schemes, lock, ticker>>

\* OpenCacheURL: optionsFromURL, r.init(ctx, &opts) and, when init does not
\* run its function, return cache.NewCache(r), nil.
OpenCacheURL(c, u) ==
    /\ Alive
    /\ pc[c] = "idle" /\ ops < MaxOps
    /\ once # "running"
    /\ ops' = ops + 1
    /\ IF ~u.parses
       THEN /\ Done(c, [NoRet EXCEPT !.op = "OpenCacheURL", !.err = URLParseErr])
            /\ UNCHANGED <<items, opts, made, once>>
       ELSE IF once = "new"
       THEN /\ once' = "running"
            /\ initBody(u.cleanupinterval)
            /\ pc' = [pc EXCEPT ![c] = "open"]
            /\ ret' = ret
       ELSE /\ Done(c, [NoRet EXCEPT !.op = "OpenCacheURL", !.ok = TRUE])
            /\ UNCHANGED <<items, opts, made, once>>
    /\ UNCHANGED <<now, loc, stopCh, loop, keyItems, idx, panicked, wr,
                   schemes, lock, ticker>>

\* The first OpenCacheURL goes on: the rest of init's function (stop
\* channel, goroutine with its ticker), then return cache.NewCache(r), nil.
OpenFinish(c) ==
    /\ Alive
    /\ pc[c] = "open"
    /\ stopCh' = "open"
    /\ loop' = "select"
    /\ ticker' = opts
    /\ made' = [made EXCEPT !.stopCh = @ + 1, !.loop = @ + 1]
    /\ once' = "done"
    /\ Done(c, [NoRet EXCEPT !.op = "OpenCacheURL", !.ok = TRUE])
    /\ UNCHANGED <<items, opts, now, loc, keyItems, idx, panicked, wr, ops,
                   schemes, lock>>

\* The opener instance the package's init registers: the zero value, or
\* the instance after an earlier OpenCacheURL whose handle has been used to
\* write entries.
OpenInit ==
    /\ now = 1
    /\ pc = [c \in Callers |-> "idle"]
    /\ loc = [c \in Callers |-> NoLoc]
    /\ ret = [c \in Callers |-> NoRet]
    /\ keyItems = << >>
    /\ idx = 0
    /\ panicked = FALSE
    /\ ops = 0
    /\ schemes = << >>
    /\ mu = FreeLock
    /\ sp = [t \in Threads |-> Outside]
    /\ \/ /\ once = "new"
          /\ items = newStore
          /\ opts = NoOpts
          /\ ticker = NoTicker
          /\ made = [store |-> 0, stopCh |-> 0, loop |-> 0]
          /\ stopCh = "nil"
          /\ loop = "none"
       \/ /\ once = "done"
          /\ \E ks \in SUBSET Keys : items \in [ks -> RaceItems]
          /\ opts \in {revise(o) : o \in Intervals}
          /\ ticker = opts
          /\ made = [store |-> 1, stopCh |-> 1, loop |-> 1]
          /\ stopCh = "open"
          /\ loop = "select"
    /\ wr = [k \in Keys |-> IF k \in DOMAIN items THEN WriteOf(items[k])
                                                 ELSE NoWrite]

\* The values written through the handles here: strings.
OpenValues == { v \in Values : v.caps = {"string"} }

\* OpenCacheURL on the opener, and the use of the handles it returned: all
\* of them wrap the opener instance r itself.
OpenNext ==
    \/ \E c \in Callers, u \in URLs : OpenCacheURL(c, u)
    \/ \E c \in Callers : OpenFinish(c)
    \/ \E c \in Callers : Return(c)
    \/ /\ once = "done"
       /\ \/ Tick
          \/ \E c \in Callers, k \in Keys, v \in OpenValues : Set(c, k, v)
          \/ \E c \in Callers : setStore(c)
          \/ \E c \in Callers, k \in Keys : GetLookup(c, k)
          \/ \E c \in Callers : GetFinish(c)
          \/ \E c \in Callers : Close(c)
          \/ SweepTick
          \/ SweepStep
          \/ SweepStop

OpenSpec == OpenInit /\ [][OpenNext]_vars

\* --------------------------------------------------------------- registry
\* The schemes, the key types (getTypeKey: fmt.Sprintf("%T", k)) and the
\* openers that callers register.
Schemes == {"ramcache", "new"}
KeyTypes == {"string", "keymod.Key"}
Openers == {"opener1", "opener2"}

\* The value RegisterCache panics with.
AlreadyRegisteredErr ==
    <<{"gcerrors.Error"}, {"scheme and type already registered"}>>

\* defaultURLMux.schemes[scheme][typeKey] exists.
IsRegistered(reg, scheme, typeKey) ==
    scheme \in DOMAIN reg /\ typeKey \in DOMAIN reg[scheme]

\* defaultURLMux.schemes[scheme][typeKey] = opener, the maps made on demand.
PutOpener(reg, scheme, typeKey, opener) ==
    [s \in (DOMAIN reg) \cup {scheme} |->
        IF s = scheme
        THEN [t \in (IF s \in DOMAIN reg THEN DOMAIN reg[s] ELSE {}) \cup {typeKey} |->
                 IF t = typeKey THEN opener ELSE reg[s][t]]
        ELSE reg[s]]

\* A RegisterCache that replaces the opener of a registered pair.
RegisterCache_Overwrites(c, scheme, typeKey, opener) ==
    /\ CanCall(c)
    /\ ops' = ops + 1
    /\ schemes' = PutOpener(schemes, scheme, typeKey, opener)
    /\ ret' = [ret EXCEPT ![c] = [op |-> "RegisterCache", key |-> scheme,
                                  val |-> typeKey, ok |-> TRUE, err |-> NoErr]]
    /\ UNCHANGED panicked
    /\ pc' = [pc EXCEPT ![c] = "done"]
    /\ UNCHANGED <<items, now, loc, stopCh, loop, keyItems, idx, wr,
                   once, opts, made, lock, ticker>>

\* RegisterCache, under defaultURLMux.mu from its first statement to its
\* return or panic: the panic unwinds into the caller, which is handed the
\* value if it recovers.
RegisterCache(c, scheme, typeKey, opener) ==
    /\ CanCall(c)
    /\ ops' = ops + 1
    /\ IF IsRegistered(schemes, scheme, typeKey)
       THEN /\ panicked' = TRUE
            /\ ret' = [ret EXCEPT ![c] = [op |-> "RegisterCache", key |-> scheme,
                                          val |-> typeKey, ok |-> FALSE,
                                          err |-> AlreadyRegisteredErr]]
            /\ UNCHANGED schemes
       ELSE /\ schemes' = PutOpener(schemes, scheme, typeKey, opener)
            /\ ret' = [ret EXCEPT ![c] = [op |-> "RegisterCache", key |-> scheme,
                                          val |-> typeKey, ok |-> TRUE,
                                          err |-> NoErr]]
            /\ UNCHANGED panicked
    /\ pc' = [pc EXCEPT ![c] = "done"]
    /\ UNCHANGED <<items, now, loc, stopCh, loop, keyItems, idx, wr,
                   once, opts, made, lock, ticker>>

\* The registries earlier registrations can have left: a scheme is absent
\* or has an opener for at least one key type.
Registries ==
    UNION { [ss -> UNION { [ts -> Openers] : ts \in (SUBSET KeyTypes) \ {{}} }] :
            ss \in SUBSET Schemes }

RegInit ==
    /\ schemes \in Registries
    /\ items = newStore
    /\ now = 1
    /\ pc = [c \in Callers |-> "idle"]
    /\ loc = [c \in Callers |-> NoLoc]
    /\ ret = [c \in Callers |-> NoRet]
    /\ stopCh = "open"
    /\ loop = "select"
    /\ keyItems = << >>
    /\ idx = 0
    /\ panicked = FALSE
    /\ wr = [k \in Keys |-> NoWrite]
    /\ ops = 0
    /\ once = "done"
    /\ opts = revise(0)
    /\ ticker = opts
    /\ made = [store |-> 1, stopCh |-> 1, loop |-> 1]
    /\ mu = FreeLock
    /\ sp = [t \in Threads |-> Outside]

RegNext ==
    \/ \E c \in Callers, s \in Schemes, t \in KeyTypes, o \in Openers :
          RegisterCache(c, s, t, o)
    \/ \E c \in Callers : Return(c)

RegSpec == RegInit /\ [][RegNext]_vars

\* ------------------------------------------------------------- store lock
\* The store methods with their locking spelled out.  A goroutine goes
\* through the stages of its method: "wait" (at mu.Lock / mu.RLock), "in"
\* (lock held, before the map access), "exit" (map access done, at the
\* unlock); a set is at "serialize" first (ValidateTTL and the type switch).
Mutators == {"Set", "Delete", "Clear"}
Readers == {"Get", "KeyItemsSortedByExpiry"}

\* A store whose Delete takes the read lock.
LockKind_DeleteShared(m) ==
    IF m \in {"Set", "Clear"} THEN "Lock" ELSE "RLock"

\* The lock operation each store method starts with.
LockKind(m) == IF m \in Mutators THEN "Lock" ELSE "RLock"

\* A set that enters store.Set's lock before it serializes.
SetStages_LockFirst == <<"wait", "serialize", "in", "exit">>

\* SetWithTTL / set: validate and serialize, then store.Set.
SetStages == <<"serialize", "wait", "in", "exit">>

Stages(m) == IF m = "Set" THEN SetStages ELSE <<"wait", "in", "exit">>

NextStage(m, st) ==
    LET seq == Stages(m)
        i == CHOOSE j \in 1..Len(seq) : seq[j] = st
    IN  IF i = Len(seq) THEN "out" ELSE seq[i + 1]

\* The store methods a goroutine calls: the facade's on behalf of a caller,
\* removeExpiredItems' on the eviction goroutine.
MethodsOf(t) ==
    IF t = "loop" THEN {"KeyItemsSortedByExpiry", "Delete"}
    ELSE {"Get", "Delete", "Clear"}

\* The values and TTLs handed to SetWithTTL here.
LockValues == { v \in Values : v.caps \in {{"string"}, {"reader"}} }
LockTTLs == {-1, 0, 1}

Holds(t) == t \in mu.writers \cup mu.readers
\* An unlock that leaves the read lock taken.
Drop_KeepsReadLock(t) == [writers |-> mu.writers \ {t}, readers |-> mu.readers]

\* mu.Unlock() / mu.RUnlock() by goroutine t.
Drop(t) == [writers |-> mu.writers \ {t}, readers |-> mu.readers \ {t}]

\* A caller enters SetWithTTL(key, v, ttl).
SetCall(t, key, v, ttl) ==
    /\ Alive
    /\ t \in Callers
    /\ sp[t].stage = "out" /\ ops < MaxOps
    /\ ops' = ops + 1
    /\ sp' = [sp EXCEPT ![t] = [method |-> "Set", stage |-> Stages("Set")[1],
                                key |-> key, v |-> v, ttl |-> ttl,
                                item |-> ZeroItem]]
    /\ UNCHANGED <<items, now, pc, loc, ret, stopCh, loop, keyItems, idx,
                   panicked, wr, life, mu>>

\* A goroutine enters one of the other store methods.
StoreCall(t, m, key) ==
    /\ Alive
    /\ m \in MethodsOf(t)
    /\ sp[t].stage = "out" /\ ops < MaxOps
    /\ ops' = ops + 1
    /\ sp' = [sp EXCEPT ![t] = [Outside EXCEPT !.method = m,
                                               !.stage = Stages(m)[1],
                                               !.key = key]]
    /\ UNCHANGED <<items, now, pc, loc, ret, stopCh, loop, keyItems, idx,
                   panicked, wr, life, mu>>

\* ValidateTTL and the type switch of set (MarshalBinary, io.ReadAll, ...):
\* on an error the call returns, otherwise the item is built.
Serializing(t) ==
    /\ Alive
    /\ sp[t].stage = "serialize"
    /\ LET e == ValidateTTL(sp[t].ttl)
           d == Serialize(sp[t].v)
       IN  IF e # NoErr \/ d.err # NoErr
           THEN /\ sp' = [sp EXCEPT ![t] = Outside]
                /\ mu' = Drop(t)
           ELSE /\ sp' = [sp EXCEPT ![t].stage = NextStage("Set", "serialize"),
                                    ![t].item = MakeItem(d.data, sp[t].ttl, now)]
                /\ mu' = mu
    /\ UNCHANGED <<items, now, pc, loc, ret, stopCh, loop, keyItems, idx,
                   panicked, wr, ops, life>>

\* s.mu.Lock() / s.mu.RLock() returns: Lock when nobody holds the lock,
\* RLock when no writer holds it.
Acquire(t) ==
    /\ Alive
    /\ sp[t].stage = "wait"
    /\ IF LockKind(sp[t].method) = "Lock"
       THEN /\ mu.writers = {} /\ mu.readers = {}
            /\ mu' = [mu EXCEPT !.writers = {t}]
       ELSE /\ mu.writers = {}
            /\ mu' = [mu EXCEPT !.readers = @ \cup {t}]
    /\ sp' = [sp EXCEPT ![t].stage = NextStage(sp[t].method, "wait")]
    /\ UNCHANGED <<items, now, pc, loc, ret, stopCh, loop, keyItems, idx,
                   panicked, wr, ops, life>>

\* The statement between lock and unlock: the map read, write, delete,
\* reset, or the copy and sort of KeyItemsSortedByExpiry.
Critical(t) ==
    /\ Alive
    /\ sp[t].stage = "in"
    /\ LET m == sp[t].method
       IN  /\ items' = IF m = "Set" THEN StoreSet(items, sp[t].key, sp[t].item)
                       ELSE IF m = "Delete" THEN StoreDelete(items, sp[t].key)
                       ELSE IF m = "Clear" THEN StoreClear(items)
                       ELSE items
           /\ IF m = "KeyItemsSortedByExpiry"
              THEN \E l \in KeyItemsSortedByExpiry(items) : keyItems' = l
              ELSE keyItems' = keyItems
           /\ sp' = [sp EXCEPT ![t].stage = NextStage(m, "in"),
                               ![t].item = IF m = "Get"
                                           THEN StoreGet(items, sp[t].key).item
                                           ELSE @]
    /\ UNCHANGED <<now, pc, loc, ret, stopCh, loop, idx, panicked, wr, ops,
                   life, mu>>

\* s.mu.Unlock() / s.mu.RUnlock(), and the return.
Release(t) ==
    /\ Alive
    /\ sp[t].stage = "exit"
    /\ mu' = Drop(t)
    /\ sp' = [sp EXCEPT ![t] = Outside]
    /\ UNCHANGED <<items, now, pc, loc, ret, stopCh, loop, keyItems, idx,
                   panicked, wr, ops, life>>

\* The items the store holds when the goroutines start.
LockItems == {MakeItem("a", 0, 1), MakeItem("b", 1, 1)}

LockInit ==
    /\ \E ks \in SUBSET Keys : items \in [ks -> LockItems]
    /\ now = 1
    /\ pc = [c \in Callers |-> "idle"]
    /\ loc = [c \in Callers |-> NoLoc]
    /\ ret = [c \in Callers |-> NoRet]
    /\ stopCh = "open"
    /\ loop = "select"
    /\ keyItems = << >>
    /\ idx = 0
    /\ panicked = FALSE
    /\ wr = [k \in Keys |-> NoWrite]
    /\ ops = 0
    /\ Constructed

LockNext ==
    \/ \E t \in Callers, k \in Keys, v \in LockValues, ttl \in LockTTLs :
          SetCall(t, k, v, ttl)
    \/ \E t \in Threads, m \in Mutators \cup Readers, k \in Keys :
          StoreCall(t, m, k)
    \/ \E t \in Threads : Serializing(t)
    \/ \E t \in Threads : Acquire(t)
    \/ \E t \in Threads : Critical(t)
    \/ \E t \in Threads : Release(t)

LockSpec == LockInit /\ [][LockNext]_vars

\* The scheduling of the goroutines inside the store methods: a goroutine
\* that can take its next statement takes it (weak fairness); one waiting
\* at mu.Lock or mu.RLock gets the lock if it is free again and again
\* (strong fairness: sync.RWMutex queues its waiters and holds new readers
\* back behind a waiting writer).  Nothing obliges a goroutine to call.
LockLiveSpec ==
    /\ LockSpec
    /\ \A t \in Threads :
         /\ WF_vars(Serializing(t))
         /\ SF_vars(Acquire(t))
         /\ WF_vars(Critical(t))
         /\ WF_vars(Release(t))

TypeOK ==
    /\ DOMAIN items \subseteq SweepKeys
    /\ now \in 1..MaxTime
    /\ ops \in 0..MaxOps
    /\ idx \in 0..(Len(keyItems) + 1)

\* ------------------------------------------------------------- properties
\* What a Get(k), or an Exists(k), run now without interference returns.
GetNow(k) == getOutcome(StoreGet(items, k).item, StoreGet(items, k).exists, now)
ExistsNow(k) == existsOutcome(StoreGet(items, k).item, StoreGet(items, k).exists, now)

\* The same, with the clock advanced to t.
GetAt(k, t) == getOutcome(StoreGet(items, k).item, StoreGet(items, k).exists, t)
ExistsAt(k, t) == existsOutcome(StoreGet(items, k).item, StoreGet(items, k).exists, t)

\* A Set, SetWithTTL or Del of k has started and not returned.
TouchInFlight(k) ==
    \E c \in Callers : pc[c] \in {"Set", "SetWithTTL", "Del"} /\ loc[c].key = k

Returned(c, op, k) == pc[c] = "done" /\ ret[c].op = op /\ ret[c].key = k

\* C1: after Set(k, v) has returned, and as long as no Del(k), Clear or later
\* Set/SetWithTTL of k happened, Get(k) returns v without error and Exists(k)
\* returns true, now and at every later clock value.
C1_SetIsReadForever ==
    \A k \in Keys :
        (/\ wr[k].op = "Set"
         /\ wr[k].del \notin {"Del", "Clear"}
         /\ ~TouchInFlight(k))
        => \A t \in now..MaxTime :
             /\ GetAt(k, t).ok
             /\ GetAt(k, t).val = wr[k].val
             /\ GetAt(k, t).err = NoErr
             /\ ExistsAt(k, t).ok

\* C2: for the last write of k being a SetWithTTL with ttl > 0 made at time T,
\* and no Del(k) or Clear executed since: while the clock is at most T + ttl,
\* Get(k) returns the value written; once the clock is past T + ttl, Get(k)
\* returns KeyNotFound; both whether or not a sweep ran in between.
C2_TTLDeadline ==
    \A k \in Keys :
        (/\ wr[k].op = "SetWithTTL" /\ wr[k].exp # ZeroTime
         /\ wr[k].del \notin {"Del", "Clear"})
        => /\ (now <= wr[k].exp)
                => (GetNow(k).ok /\ GetNow(k).val = wr[k].val /\ GetNow(k).err = NoErr)
           /\ (now > wr[k].exp)
                => (~GetNow(k).ok /\ Is(GetNow(k).err, ErrKeyNotFound))

\* C3: an item stored by Set, or by SetWithTTL with ttl = 0, is never deleted
\* by the background sweep.
C3_NoExpiryNeverSwept ==
    \A k \in Keys :
        (wr[k].op \in {"Set", "SetWithTTL"} /\ wr[k].exp = ZeroTime)
        => wr[k].del # "sweep"

\* The store a snapshot lists.
SnapMap(s) ==
    [k \in {s[i].Key : i \in 1..Len(s)} |->
        s[CHOOSE i \in 1..Len(s) : s[i].Key = k].Item]

\* The two classes of entries of C4, at clock value t.
ExpiryInPast(it, t) == ~it.NoExpiry /\ it.Expiry < t
ExpiryInFutureOrNone(it, t) == it.NoExpiry \/ it.Expiry > t

\* C4: with no caller running and the clock fixed, one execution of
\* removeExpiredItems takes a snapshot that lists the store, removes every
\* entry whose expiry is in the past and nothing else, and leaves every entry
\* whose expiry is in the future, or that has no expiry, with its item.
C4_SweepRemovesExactlyExpired ==
    [][ /\ (loop = "select" /\ loop' = "walk")
            => (SnapMap(keyItems') = items /\ Len(keyItems') = Cardinality(DOMAIN items))
        /\ (loop = "walk" /\ loop' = "select")
            => LET pre == SnapMap(keyItems)
               IN  /\ DOMAIN items' \subseteq DOMAIN pre
                   /\ \A k \in DOMAIN pre :
                        /\ ExpiryInPast(pre[k], now) => k \notin DOMAIN items'
                        /\ ExpiryInFutureOrNone(pre[k], now)
                               => (k \in DOMAIN items' /\ items'[k] = pre[k])
      ]_vars

\* The sweep has removed an expired entry and stands at an entry that is not
\* expired, where it stops.
C4_Witness ==
    /\ loop = "walk"
    /\ idx > 1 /\ idx <= Len(keyItems)
    /\ ExpiryInPast(keyItems[1].Item, now)
    /\ keyItems[1].Key \notin DOMAIN items
    /\ ExpiryInFutureOrNone(keyItems[idx].Item, now)
    /\ keyItems[idx].Key \in DOMAIN items

\* C5: under any interleaving the sweep removes only expired entries: an
\* entry written with a positive TTL whose deadline T + ttl has not passed is
\* not removed by the sweep, also when it replaced an expired entry of the
\* same key after the sweep took its snapshot.
C5_SweepRemovesOnlyExpired ==
    \A k \in Keys :
        (wr[k].op # "none" /\ wr[k].exp # ZeroTime /\ now <= wr[k].exp)
        => wr[k].del # "sweep"

\* C6: last writer wins: once a Set/SetWithTTL of k that stored an item not
\* yet expired has returned, and no later Set, Del or Clear touched k (and
\* the sweep did not remove it), Get(k) returns the value written, also when
\* a Get or Exists that looked k up before issues its lazy delete afterwards.
C6_LastWriterWins ==
    \A k \in Keys :
        (/\ wr[k].op # "none" /\ wr[k].exp # ZeroTime /\ now <= wr[k].exp
         /\ wr[k].del \notin {"Del", "Clear", "sweep"}
         /\ ~TouchInFlight(k))
        => (GetNow(k).ok /\ GetNow(k).val = wr[k].val)

\* C7: after a key was written a second time, the store holds for it the
\* value of the second write and an expiry that follows from the second TTL
\* alone: never expired for ttl = 0, expired exactly after T + ttl otherwise.
C7_SecondWriteSupersedes ==
    \A k \in Keys :
        (wr[k].over /\ wr[k].del = "none")
        => /\ k \in DOMAIN items
           /\ items[k].Value = wr[k].val
           /\ \A t \in 1..(MaxTime + MaxTTL + 1) :
                IsExpired(items[k], t) <=> (wr[k].exp # ZeroTime /\ t > wr[k].exp)

\* C8: SetWithTTL with a negative ttl returns an error that is ErrInvalidTTL
\* and leaves the store as it was; an absent key stays absent for Exists.
C8_NegativeTTLRejected ==
    [][ \A c \in Callers :
          (pc[c] = "idle" /\ pc'[c] # "idle")
          => \A k \in Keys, v \in Values, t \in TTLs :
               (t < 0 /\ SetWithTTL(c, k, v, t))
               => /\ pc'[c] = "done"
                  /\ ret'[c].op = "SetWithTTL"
                  /\ ~ret'[c].ok
                  /\ Is(ret'[c].err, ErrInvalidTTL)
                  /\ items' = items
                  /\ (k \notin DOMAIN items
                        => existsOutcome(StoreGet(items', k).item,
                                         StoreGet(items', k).exists, now')
                           = [delete |-> FALSE, ok |-> FALSE, err |-> NoErr])
      ]_vars

\* A SetWithTTL returned ErrInvalidTTL for a key that is in the store.
C8_Witness ==
    \E c \in Callers, k \in DOMAIN items :
        /\ Returned(c, "SetWithTTL", k)
        /\ Is(ret[c].err, ErrInvalidTTL)

\* C9: SetWithTTL(k, v, 0) stores, as Set does, an item that no clock value
\* makes expired.
C9_ZeroTTLIsNoExpiry ==
    \A k \in Keys :
        (wr[k].op = "SetWithTTL" /\ wr[k].exp = ZeroTime /\ wr[k].del = "none")
        => /\ k \in DOMAIN items
           /\ \A t \in 1..MaxTime : ~IsExpired(items[k], t)

\* The values whose serialization fails: no case of the type switch matches,
\* or the marshaling or reading step of the matching case returns an error.
Unserializable(v) ==
    \/ v.caps = {}
    \/ \E i \in 1..Len(CapOrder) :
         /\ CapOrder[i] \in v.caps \cap v.failing
         /\ \A j \in 1..(i - 1) : CapOrder[j] \notin v.caps

UnserializableValues == { v \in Values : Unserializable(v) }

\* What C10 asks of a call of c that has just started.
FailedAndKeptStore(c) ==
    /\ pc'[c] = "done"
    /\ ~ret'[c].ok
    /\ ret'[c].err # NoErr
    /\ items' = items

\* C10: when the serialization of the value fails, Set and SetWithTTL return
\* an error and leave the store as it was.
C10_SerializationFailureKeepsStore ==
    [][ \A c \in Callers :
          (pc[c] = "idle" /\ pc'[c] # "idle")
          => \A k \in Keys, v \in UnserializableValues :
               /\ Set(c, k, v) => FailedAndKeptStore(c)
               /\ \A t \in 0..MaxTTL :
                    SetWithTTL(c, k, v, t) => FailedAndKeptStore(c)
      ]_vars

\* A Set or SetWithTTL returned a serialization error for a key that is in
\* the store.
C10_Witness ==
    \E c \in Callers, k \in DOMAIN items :
        /\ pc[c] = "done"
        /\ ret[c].op \in {"Set", "SetWithTTL"}
        /\ ret[c].key = k
        /\ ret[c].err # NoErr
        /\ ~Is(ret[c].err, ErrInvalidTTL)

\* The keys other than k hold in the next state what they hold now.
OthersKept(k) ==
    \A k2 \in Keys \ {k} : StoreGet(items', k2) = StoreGet(items, k2)

\* The lookup of caller c, made in this step, reads key k from the store.
LooksUp(c, k) ==
    /\ items' = items
    /\ loc'[c].key = k
    /\ loc'[c].exists = (k \in DOMAIN items)
    /\ (k \in DOMAIN items => loc'[c].item = items[k])

\* C11: Get(k) returns KeyNotFound when its lookup finds k absent or finds an
\* item whose expiry is in the past, and in both cases k is not in the store
\* when Get returns; when the lookup finds an item that is not expired, Get
\* returns the item's bytes with no error and leaves the store unchanged.
C11_GetOutcome ==
    [][ \A c \in Callers :
          /\ \A k \in Keys : GetLookup(c, k) => LooksUp(c, k)
          /\ GetFinish(c)
               => IF ~loc[c].exists \/ ExpiryInPast(loc[c].item, now)
                  THEN /\ ~ret'[c].ok
                       /\ ret'[c].val = NilBytes
                       /\ Is(ret'[c].err, ErrKeyNotFound)
                       /\ loc[c].key \notin DOMAIN items'
                       /\ OthersKept(loc[c].key)
                  ELSE /\ ret'[c].ok
                       /\ ret'[c].val = loc[c].item.Value
                       /\ ret'[c].err = NoErr
                       /\ items' = items
      ]_vars

\* A Get found an expired item beside another key, deleted it and returned
\* KeyNotFound.
C11_Witness ==
    \E c \in Callers, k \in Keys :
        /\ Returned(c, "Get", k)
        /\ Is(ret[c].err, ErrKeyNotFound)
        /\ wr[k].del = "Get"
        /\ k \notin DOMAIN items
        /\ DOMAIN items # {}

\* C12: Exists(k) never returns an error; it returns true exactly when its
\* lookup finds k with an item that is not expired, and then changes
\* nothing; when the lookup finds an expired item it deletes k and returns
\* false; when the lookup finds k absent it returns false and leaves the
\* store unchanged.
C12_ExistsOutcome ==
    [][ \A c \in Callers :
          /\ \A k \in Keys : ExistsLookup(c, k) => LooksUp(c, k)
          /\ ExistsFinish(c)
               => /\ ret'[c].err = NoErr
                  /\ ret'[c].ok = (loc[c].exists /\ ~ExpiryInPast(loc[c].item, now))
                  /\ IF loc[c].exists /\ ExpiryInPast(loc[c].item, now)
                     THEN /\ loc[c].key \notin DOMAIN items'
                          /\ OthersKept(loc[c].key)
                     ELSE items' = items
      ]_vars

\* An Exists found an expired item beside another key, deleted it and
\* returned false without error.
C12_Witness ==
    \E c \in Callers, k \in Keys :
        /\ Returned(c, "Exists", k)
        /\ ~ret[c].ok /\ ret[c].err = NoErr
        /\ wr[k].del = "Exists"
        /\ k \notin DOMAIN items
        /\ DOMAIN items # {}

C14_DelExpiredSucceeds ==
    [][ \A c \in Callers :
          /\ \A k \in Keys :
               (/\ k \in DOMAIN items
                /\ ExpiryInPast(items[k], now)
                /\ DelLookup(c, k))
               => (pc'[c] = "Del" /\ loc'[c].exists)
          /\ (/\ pc[c] = "Del"
              /\ ExpiryInPast(loc[c].item, now)
              /\ pc'[c] = "done")
               => /\ ret'[c].ok
                  /\ ret'[c].err = NoErr
                  /\ loc[c].key \notin DOMAIN items'
      ]_vars

\* A Del removed an expired item and returned nil.
C14_Witness ==
    \E c \in Callers, k \in Keys :
        /\ Returned(c, "Del", k)
        /\ ret[c].ok /\ ret[c].err = NoErr
        /\ wr[k].del = "Del"
        /\ now > wr[k].exp
        /\ k \notin DOMAIN items

\* What Del(k) returns for a key that was never written.
NeverSetDel(k) == [NoRet EXCEPT !.op = "Del", !.key = k, !.err = KeyNotFoundErr]

C16_PatternOpsNotSupported ==
    [][ \A c \in Callers :
          (pc[c] = "idle" /\ pc'[c] # "idle")
          => \A p \in Patterns :
               (Count(c, p) \/ DelKeys(c, p))
               => /\ pc'[c] = "done"
                  /\ ret'[c].op \in {"Count", "DelKeys"}
                  /\ ~ret'[c].ok
                  /\ Is(ret'[c].err, ErrPatternMatchingNotSupported)
                  /\ items' = items
      ]_vars

\* A DelKeys returned the error after Close, on a store that holds items.
C16_Witness ==
    \E c \in Callers :
        /\ pc[c] = "done"
        /\ ret[c].op = "DelKeys"
        /\ Is(ret[c].err, ErrPatternMatchingNotSupported)
        /\ stopCh = "closed"
        /\ DOMAIN items # {}

\* C17: Clear returns nil and leaves the store empty; a key that Clear
\* removed, whatever its expiry, stays absent until the next store.Set of
\* it: Exists returns false and Get returns KeyNotFound for it.
C17_ClearEmptiesStore ==
    [][ /\ \A c \in Callers :
             Clear(c)
             => /\ pc'[c] = "done"
                /\ ret'[c].ok
                /\ ret'[c].err = NoErr
                /\ DOMAIN items' = {}
        /\ \A k \in Keys :
             (DOMAIN items' = {} \/ wr'[k].del = "Clear")
             => /\ ~existsOutcome(StoreGet(items', k).item,
                                  StoreGet(items', k).exists, now').ok
                /\ Is(getOutcome(StoreGet(items', k).item,
                                 StoreGet(items', k).exists, now').err,
                      ErrKeyNotFound)
      ]_vars

\* A Clear returned nil after removing an item stored by Set and an item
\* whose TTL had not run out.
C17_Witness ==
    \E c \in Callers, k1 \in Keys, k2 \in Keys :
        /\ pc[c] = "done" /\ ret[c].op = "Clear" /\ ret[c].ok
        /\ DOMAIN items = {}
        /\ wr[k1].del = "Clear" /\ wr[k1].op = "Set"
        /\ wr[k2].del = "Clear" /\ wr[k2].op = "SetWithTTL" /\ now <= wr[k2].exp

\* C18: whatever number of Close calls is made, no goroutine panics and
\* every Close that returned has returned nil.
C18_RepeatedCloseIsSafe ==
    /\ ~panicked
    /\ \A c \in Callers :
         (pc[c] = "done" /\ ret[c].op = "Close") => (ret[c].ok /\ ret[c].err = NoErr)

\* The result and the store that a step of a data operation of caller c
\* leaves, computed from the store, the clock and the caller's locals alone:
\* what the operation does while the stop channel is open.
DataStepAsBeforeClose(c) ==
    /\ (pc[c] = "idle" /\ pc'[c] \in {"Set", "SetWithTTL"})
         => /\ items' = items
            /\ loc'[c].item.Value \in Payloads
            /\ ~loc'[c].item.NoExpiry
            /\ loc'[c].item.Expiry \in {ZeroTime} \cup (now + 1)..(now + MaxTTL)
    /\ (pc[c] = "idle" /\ pc'[c] = "done" /\ ret'[c].op \in {"Set", "SetWithTTL"})
         => /\ items' = items
            /\ ~ret'[c].ok
            /\ ret'[c].err # NoErr
    /\ setStore(c)
         => /\ ret'[c].ok
            /\ items' = StoreSet(items, loc[c].key, loc[c].item)
    /\ GetFinish(c)
         => /\ ret'[c].ok = getOutcome(loc[c].item, loc[c].exists, now).ok
            /\ ret'[c].val = getOutcome(loc[c].item, loc[c].exists, now).val
            /\ ret'[c].err = getOutcome(loc[c].item, loc[c].exists, now).err
            /\ items' = IF getOutcome(loc[c].item, loc[c].exists, now).delete
                         THEN StoreDelete(items, loc[c].key) ELSE items
    /\ ExistsFinish(c)
         => /\ ret'[c].ok = existsOutcome(loc[c].item, loc[c].exists, now).ok
            /\ ret'[c].err = NoErr
            /\ items' = IF existsOutcome(loc[c].item, loc[c].exists, now).delete
                         THEN StoreDelete(items, loc[c].key) ELSE items
    /\ \A k \in Keys :
         (GetLookup(c, k) \/ ExistsLookup(c, k)) => LooksUp(c, k)
    /\ \A k \in Keys :
         DelLookup(c, k)
         => /\ items' = items
            /\ IF k \in DOMAIN items THEN pc'[c] = "Del"
               ELSE pc'[c] = "done" /\ ret'[c].err = KeyNotFoundErr
    /\ DelFinish(c)
         => /\ ret'[c].ok
            /\ items' = StoreDelete(items, loc[c].key)
    /\ Clear(c)
         => /\ ret'[c].ok
            /\ items' = newStore

\* C19: Close leaves the contents of the store as they are, and with the
\* stop channel closed every step of Set, SetWithTTL, Get, Exists, Del and
\* Clear returns and does to the store what it does with the channel open,
\* the lazy delete of an expired item by Get and Exists included.
C19_CloseKeepsStoreUsable ==
    [][ \A c \in Callers :
          /\ Close(c) => (items' = items /\ wr' = wr)
          /\ (stopCh = "closed" /\ pc'[c] # pc[c]) => DataStepAsBeforeClose(c)
      ]_vars

\* With the stop channel closed, a Get found an expired item, deleted it
\* and returned KeyNotFound.
C19_Witness ==
    \E c \in Callers, k \in Keys :
        /\ stopCh = "closed"
        /\ Returned(c, "Get", k)
        /\ Is(ret[c].err, ErrKeyNotFound)
        /\ wr[k].del = "Get"
        /\ k \notin DOMAIN items

\* C20: Ping returns nil in every state, with the stop channel open or
\* closed and the store empty or not, and leaves the store unchanged.
C20_PingAlwaysNil ==
    [][ \A c \in Callers :
          Ping(c)
          => /\ pc'[c] = "done"
             /\ ret'[c].op = "Ping"
             /\ ret'[c].ok
             /\ ret'[c].err = NoErr
             /\ items' = items
      ]_vars

\* A Ping returned nil after Close, on a store that holds items.
C20_Witness ==
    \E c \in Callers :
        /\ pc[c] = "done"
        /\ ret[c].op = "Ping"
        /\ ret[c].ok
        /\ stopCh = "closed"
        /\ DOMAIN items # {}

\* C21: once Close has closed the stop channel the eviction goroutine
\* eventually returns, and once it has returned no step deletes an entry
\* except a step of a caller's own call.
C21_CloseStopsLoopForGood ==
    /\ (stopCh = "closed") ~> (loop = "stopped")
    /\ [][ (loop = "stopped")
            => /\ loop' = "stopped"
               /\ (items' # items) => (\E c \in Callers : pc'[c] # pc[c])
         ]_vars

\* An entry written with a positive TTL that is in the store and expired.
ExpiredInStore(k) ==
    /\ k \in DOMAIN items
    /\ items[k].Expiry # ZeroTime
    /\ IsExpired(items[k], now)

\* C22: as long as the stop channel is open, an entry written with a
\* positive TTL that is in the store after its expiry is eventually out of
\* the store (or replaced by a later write), whatever the callers do or
\* leave undone.
C22_ExpiredEventuallySwept ==
    \A k \in Keys :
        ExpiredInStore(k) ~> (~ExpiredInStore(k) \/ stopCh = "closed")

\* The sweep has removed an entry after its TTL ran out, the stop channel
\* open and no caller having read or deleted the key.
C22_Witness ==
    \E k \in Keys :
        /\ wr[k].op = "SetWithTTL" /\ wr[k].exp # ZeroTime
        /\ now > wr[k].exp
        /\ wr[k].del = "sweep"
        /\ k \notin DOMAIN items
        /\ stopCh = "open"
        /\ \A c \in Callers : pc[c] = "idle"

\* C23: however often init is invoked on an instance, at most one store, one
\* stop channel and one eviction goroutine are made for it, exactly one of
\* each once init has completed; an invocation on an instance whose init has
\* run leaves the store, the options, the stop channel and the goroutine as
\* they are.
C23_InitExactlyOnce ==
    /\ [](/\ made.store <= 1 /\ made.stopCh <= 1 /\ made.loop <= 1
          /\ (once = "done") => (made = [store |-> 1, stopCh |-> 1, loop |-> 1]))
    /\ [][ (once # "new" /\ \E c \in Callers : pc[c] = "idle" /\ pc'[c] # "idle")
            => UNCHANGED <<items, opts, stopCh, loop, made, once>>
         ]_vars

\* Two invocations on a zero-value instance have returned: one ran the
\* function, the other did not, and the options are those of the first.
C23_Witness ==
    /\ once = "done"
    /\ made = [store |-> 1, stopCh |-> 1, loop |-> 1]
    /\ \E c \in Callers, d \in Callers :
         /\ pc[c] = "done" /\ ret[c].op = "init" /\ ret[c].ok
         /\ pc[d] = "done" /\ ret[d].op = "init" /\ ~ret[d].ok
    /\ opts = 1
    /\ stopCh = "open" /\ loop = "select"

\* C24: RegisterCache for a (scheme, key type) pair that is registered
\* panics and leaves the registry as it is; for a pair that is not
\* registered, also when the scheme is registered under the other key type,
\* it returns and the pair maps to the opener passed, every other pair as
\* before; so a pair maps for ever to the opener of its first registration.
C24_RegisterOncePerPair ==
    [][ /\ \A c \in Callers :
             (pc[c] = "idle" /\ pc'[c] = "done" /\ ret'[c].op = "RegisterCache")
             => IF IsRegistered(schemes, ret'[c].key, ret'[c].val)
                THEN /\ ~ret'[c].ok /\ panicked'
                     /\ ret'[c].err = AlreadyRegisteredErr
                     /\ schemes' = schemes
                ELSE /\ ret'[c].ok /\ ~panicked'
                     /\ IsRegistered(schemes', ret'[c].key, ret'[c].val)
                     /\ \E o \in Openers :
                          schemes' = PutOpener(schemes, ret'[c].key, ret'[c].val, o)
        /\ \A c \in Callers, s \in Schemes, t \in KeyTypes, o \in Openers :
             (RegisterCache(c, s, t, o) /\ ~IsRegistered(schemes, s, t))
             => schemes'[s][t] = o
        /\ \A s \in Schemes, t \in KeyTypes :
             IsRegistered(schemes, s, t)
             => (IsRegistered(schemes', s, t) /\ schemes'[s][t] = schemes[s][t])
      ]_vars

\* Scheme "new" was registered for string with opener1; registering it for
\* keymod.Key has returned, registering it for string again has panicked,
\* and the string opener is still opener1.
C24_Witness ==
    /\ IsRegistered(schemes, "new", "string")
    /\ schemes["new"]["string"] = "opener1"
    /\ IsRegistered(schemes, "new", "keymod.Key")
    /\ \E c \in Callers, d \in Callers :
         /\ pc[c] = "done" /\ ret[c].op = "RegisterCache" /\ ret[c].ok
         /\ ret[c].key = "new" /\ ret[c].val = "keymod.Key"
         /\ pc[d] = "done" /\ ret[d].op = "RegisterCache" /\ ~ret[d].ok
         /\ ret[d].key = "new" /\ ret[d].val = "string"
    /\ panicked

\* C28: the store lock is held by at most one goroutine inside Set, Delete
\* or Clear and then by no reader, or by readers (Get,
\* KeyItemsSortedByExpiry) only; a goroutine between the lock and the unlock
\* of a method holds the lock in that method's mode; the map changes only
\* in a step of the one goroutine holding the write lock, and the snapshot
\* is copied only while no writer holds the lock.
C28_WriterExcludesAll ==
    /\ [](/\ Cardinality(mu.writers) <= 1
          /\ (mu.writers # {}) => (mu.readers = {})
          /\ \A t \in Threads :
               (sp[t].stage \in {"in", "exit"})
               => /\ (sp[t].method \in {"Set", "Delete", "Clear"})
                       => (t \in mu.writers)
                  /\ (sp[t].method \in {"Get", "KeyItemsSortedByExpiry"})
                       => (t \in mu.readers))
    /\ [][ /\ (items' # items)
               => \E t \in Threads :
                    /\ mu.writers = {t} /\ mu.readers = {}
                    /\ sp[t].stage = "in" /\ sp'[t].stage = "exit"
                    /\ sp[t].method \in {"Set", "Delete", "Clear"}
           /\ (keyItems' # keyItems)
               => (mu.writers = {} /\ "loop" \in mu.readers)
         ]_vars

\* Two Gets are between RLock and RUnlock at the same time.
C28_Witness ==
    /\ mu.readers = Callers
    /\ \A c \in Callers : sp[c].method = "Get" /\ sp[c].stage = "in"

\* C29: a goroutine that validates the TTL and serializes the value holds
\* no store lock; a failing validation or serialization returns without the
\* lock having been touched; and a goroutine inside the lock of store.Set
\* carries the item already built from a valid TTL and the serialized bytes.
C29_SerializeOutsideLock ==
    /\ [](\A t \in Threads :
            /\ (sp[t].stage = "serialize") => ~Holds(t)
            /\ (sp[t].method = "Set" /\ Holds(t))
                 => /\ ValidateTTL(sp[t].ttl) = NoErr
                    /\ Serialize(sp[t].v).err = NoErr
                    /\ sp[t].item = MakeItem(Serialize(sp[t].v).data, sp[t].ttl, now))
    /\ [][ \A t \in Threads :
             (sp[t].stage = "serialize" /\ sp'[t].stage # "serialize")
             => (mu' = mu /\ items' = items)
         ]_vars

\* One caller is reading its io.Reader while the other is inside the
\* write lock of store.Set.
C29_Witness ==
    \E t \in Callers, u \in Callers :
        /\ sp[t].stage = "serialize" /\ sp[t].v.caps = {"reader"}
        /\ sp[u].method = "Set" /\ sp[u].stage = "in" /\ mu.writers = {u}

\* C31: store.Get, as the first statement of Get, Exists and Del, leaves the
\* store as it is and does not look at the expiry: it reports found exactly
\* for the keys in the map, with the item as stored, expired or not.
C31_StoreGetReadsOnly ==
    [][ \A c \in Callers :
          (pc[c] = "idle" /\ pc'[c] \in {"Get", "Exists", "Del"})
          => /\ items' = items
             /\ loc'[c].exists = (loc'[c].key \in DOMAIN items)
             /\ (loc'[c].key \in DOMAIN items)
                  => (loc'[c].item = items[loc'[c].key])
             /\ (loc'[c].key \notin DOMAIN items)
                  => (loc'[c].item = ZeroItem)
      ]_vars

\* A Get holds, from its lookup, an item whose TTL has run out and that is
\* still in the map.
C31_Witness ==
    \E c \in Callers :
        /\ pc[c] = "Get"
        /\ loc[c].exists
        /\ loc[c].item.Expiry # ZeroTime
        /\ IsExpired(loc[c].item, now)
        /\ loc[c].key \in DOMAIN items
        /\ items[loc[c].key] = loc[c].item

\* C32: store.Delete of a key that is not in the map leaves the map as it
\* is, and deleting twice is deleting once; a step of the sweep that deletes
\* a snapshot key no longer in the map changes nothing in the store, panics
\* nothing and goes on with the walk, and a walk ends at the select, never
\* by the goroutine returning.
C32_DeleteAbsentIsNoOp ==
    [][ /\ \A k \in Keys :
             /\ (k \notin DOMAIN items) => (StoreDelete(items, k) = items)
             /\ StoreDelete(StoreDelete(items, k), k) = StoreDelete(items, k)
        /\ (loop = "walk" /\ idx' = idx + 1)
             => /\ (keyItems[idx].Key \notin DOMAIN items) => (items' = items)
                /\ ~panicked'
                /\ loop' = "walk" /\ keyItems' = keyItems
        /\ (loop = "walk" /\ loop' # "walk") => (loop' = "select" /\ items' = items)
      ]_vars

\* The sweep has passed a snapshot entry that a caller's Del, Get, Exists
\* or Clear had taken out of the map before.
C32_Witness ==
    /\ loop = "walk"
    /\ idx > 1
    /\ IsExpired(keyItems[idx - 1].Item, now)
    /\ keyItems[idx - 1].Key \notin DOMAIN items
    /\ wr[keyItems[idx - 1].Key].del \in {"Del", "Get", "Exists", "Clear"}
    /\ ~panicked

\* C33: once Close has closed the stop channel and returned, the eviction
\* goroutine does not leave its select for a new sweep: with the stop signal
\* there, a pending tick is not taken.
C33_NoSweepStartsAfterClose ==
    [][ (stopCh = "closed") => ~(loop = "select" /\ loop' = "walk") ]_vars

\* The interval C34 expects for the options handed to init.
ExpectedInterval(o) ==
    IF o # NoOpts /\ o > 0 THEN o ELSE DefaultCleanupInterval

\* C34: the invocation of init that runs sets the interval to the
\* CleanupInterval passed when that is positive and to 5 minutes when it is
\* zero, negative or the options are nil; the eviction goroutine's ticker
\* is made with that interval; and neither the interval nor the ticker's
\* period changes once set.
C34_IntervalDefaultedAndFixed ==
    /\ [](once = "done" => (ticker = opts /\ ticker > 0))
    /\ [][ /\ \A c \in Callers, o \in OptArgs :
                 (once = "new" /\ init(c, o)) => (opts' = ExpectedInterval(o))
           /\ (once # "new") => (opts' = opts)
           /\ (ticker # NoTicker) => (ticker' = ticker)
           /\ (ticker = NoTicker /\ ticker' # NoTicker) => (ticker' = opts)
         ]_vars

\* Init has run on a zero-value instance with the default interval as its
\* outcome, and a later invocation has returned.
C34_Witness ==
    /\ once = "done"
    /\ ticker = DefaultCleanupInterval
    /\ \E c \in Callers, d \in Callers :
         /\ pc[c] = "done" /\ ret[c].op = "init" /\ ret[c].ok
         /\ pc[d] = "done" /\ ret[d].op = "init" /\ ~ret[d].ok

\* C35: when the only two calls made are Del(k) by the two callers, on a key
\* that was in the store and that nothing but a Del has removed, and both
\* have their result, exactly one of them returned nil and the other
\* KeyNotFound.
C35_OneDelSucceeds ==
    \A k \in Keys :
        (/\ ops = 2
         /\ wr[k].op # "none" /\ wr[k].del \in {"none", "Del"}
         /\ \A c \in Callers : Returned(c, "Del", k))
        => \E c \in Callers :
             /\ ret[c].ok /\ ret[c].err = NoErr
             /\ \A d \in Callers \ {c} :
                  ~ret[d].ok /\ Is(ret[d].err, ErrKeyNotFound)

\* The keys whose entry (presence or item) this step changes.
ChangedKeys == { k \in Keys : StoreGet(items', k) # StoreGet(items, k) }

SingleKeyOps == {"Set", "SetWithTTL", "Get", "Exists", "Del"}

\* The operation and the key of the call of c that takes a step here.
StepOp(c) ==
    IF pc[c] # "idle" THEN pc[c]
    ELSE IF pc'[c] = "done" THEN ret'[c].op ELSE pc'[c]
StepKey(c) ==
    IF pc[c] # "idle" THEN loc[c].key
    ELSE IF pc'[c] = "done" THEN ret'[c].key ELSE loc'[c].key

\* C36: a step of Set, SetWithTTL, Get, Exists or Del on key k, the lazy
\* delete of an expired item included, changes the entry of no key other
\* than k; a single step changes the entries of more than one key only if it
\* is Clear (the sweep removes its keys one step at a time).
C36_SingleKeyFrame ==
    [][ /\ \A c \in Callers :
             (pc'[c] # pc[c] /\ pc[c] # "done" /\ StepOp(c) \in SingleKeyOps)
             => (ChangedKeys \subseteq {StepKey(c)})
        /\ (Cardinality(ChangedKeys) > 1)
             => \E c \in Callers :
                  pc[c] = "idle" /\ pc'[c] = "done" /\ ret'[c].op = "Clear"
      ]_vars

\* A Get has found its key expired and deleted it, and the other key is in
\* the store with the item it had.
C36_Witness ==
    \E c \in Callers, k \in Keys :
        /\ Returned(c, "Get", k) /\ ~ret[c].ok
        /\ wr[k].del = "Get"
        /\ k \notin DOMAIN items
        /\ \A k2 \in Keys \ {k} :
             k2 \in DOMAIN items /\ items[k2] \in RaceItems /\ wr[k2].del = "none"

\* C37: however often OpenCacheURL is called on an opener instance, one
\* store, one stop channel and one eviction goroutine are made; a call on
\* the instance already set up returns its handle with store (so every
\* entry written before), interval, ticker, stop channel and goroutine as
\* they were, whatever interval its URL asks for; a Get through any handle
\* reads that one store; and Close closes the stop channel of that one
\* goroutine, after whose return nothing but a caller's own call changes the
\* store.
C37_OpenersShareOneInstance ==
    /\ [](/\ made.store <= 1 /\ made.stopCh <= 1 /\ made.loop <= 1
          /\ (once = "done") => (made = [store |-> 1, stopCh |-> 1, loop |-> 1]))
    /\ [][ /\ \A c \in Callers :
                 (pc[c] = "idle" /\ pc'[c] = "done" /\ ret'[c].op = "OpenCacheURL")
                 => UNCHANGED <<items, opts, ticker, stopCh, loop, made, once>>
           /\ \A c \in Callers :
                 (pc[c] = "idle" /\ pc'[c] = "open")
                 => (once = "new" /\ made = [store |-> 0, stopCh |-> 0, loop |-> 0])
           /\ (once # "new") => (opts' = opts)
           /\ (ticker # NoTicker) => (ticker' = ticker)
           /\ \A c \in Callers :
                 (pc[c] = "idle" /\ pc'[c] = "Get")
                 => /\ loc'[c].exists = (loc'[c].key \in DOMAIN items)
                    /\ loc'[c].exists => (loc'[c].item = items[loc'[c].key])
           /\ (stopCh = "open" /\ stopCh' = "closed") => (made.loop = 1)
           /\ (loop = "stopped")
                 => /\ loop' = "stopped"
                    /\ (items' # items) => (\E c \in Callers : pc'[c] # pc[c])
         ]_vars

\* On an instance set up with the default interval and holding an entry, a
\* later OpenCacheURL has returned its handle, and a Get has returned the
\* entry's value.
C37_Witness ==
    /\ once = "done"
    /\ opts = DefaultCleanupInterval /\ ticker = DefaultCleanupInterval
    /\ made = [store |-> 1, stopCh |-> 1, loop |-> 1]
    /\ \E c \in Callers, d \in Callers, k \in Keys :
         /\ pc[c] = "done" /\ ret[c].op = "OpenCacheURL" /\ ret[c].ok
         /\ Returned(d, "Get", k) /\ ret[d].ok /\ ret[d].val = "a"
         /\ k \in DOMAIN items

\* C38: a goroutine holds the store lock only between the lock and the
\* unlock of the store method it is in: it holds none while it waits for
\* the lock (no request while holding), takes it in one step from there and
\* has given it back when the method returns; and, the goroutines being
\* scheduled fairly, every method a goroutine has entered returns.
C38_LockReleasedAndCallsReturn ==
    /\ [](\A t \in Threads : Holds(t) <=> (sp[t].stage \in {"in", "exit"}))
    /\ [][ \A t \in Threads :
             /\ (~Holds(t) /\ Holds(t)')
                  => (sp[t].stage = "wait" /\ sp'[t].stage = "in")
             /\ (Holds(t) /\ ~Holds(t)')
                  => (sp[t].stage = "exit" /\ sp'[t].stage = "out")
         ]_vars
    /\ \A t \in Threads : (sp[t].stage # "out") ~> (sp[t].stage = "out")

\* A Set, Delete or Clear waits at mu.Lock while another goroutine is
\* inside the read lock.
C38_Witness ==
    \E t \in Threads, u \in Threads :
        /\ sp[t].stage = "wait" /\ sp[t].method \in Mutators
        /\ sp[u].stage = "in" /\ u \in mu.readers

\* The clock values IsExpired is evaluated at.
ClockValues == 0..(MaxTime + MaxTTL + 1)

\* C25: at every single clock value, in the snapshot that
\* KeyItemsSortedByExpiry returns no expired entry comes after an entry that
\* is not expired, and when the sweep leaves its walk no entry of the
\* snapshot from its position on is expired.
C25_ExpiredEntriesFormPrefix ==
    [][ /\ (loop = "select" /\ loop' = "walk")
            => \A t \in ClockValues :
                 \A i \in 1..Len(keyItems'), j \in 1..Len(keyItems') :
                    (i < j /\ IsExpired(keyItems'[j].Item, t))
                    => IsExpired(keyItems'[i].Item, t)
        /\ (loop = "walk" /\ loop' = "select")
            => \A i \in idx..Len(keyItems) : ~IsExpired(keyItems[i].Item, now)
      ]_vars

\* The sweep has removed the two expired entries of a snapshot of three and
\* stands at the third, which has no expiry.
C25_Witness ==
    /\ loop = "walk"
    /\ Len(keyItems) = 3 /\ idx = 3
    /\ IsExpired(keyItems[1].Item, now) /\ IsExpired(keyItems[2].Item, now)
    /\ keyItems[3].Item.NoExpiry
    /\ DOMAIN items = {keyItems[3].Key}

\* An entry the claim counts as having no expiry: the flag is set, or the
\* item was built with the zero Expiry time.
HasNoExpiry(it) == it.NoExpiry \/ it.Expiry = ZeroTime

\* C26: KeyItemsSortedByExpiry returns every key of the store exactly once
\* with its item, the entries with a concrete expiry in ascending order of
\* expiry, every entry without expiry (flag set, or zero Expiry time) after
\* all entries with a concrete expiry, and leaves the store as it is.
C26_SnapshotSortedNoExpiryLast ==
    [][ (loop = "select" /\ loop' = "walk")
        => /\ items' = items
           /\ Len(keyItems') = Cardinality(DOMAIN items)
           /\ SnapMap(keyItems') = items
           /\ \A i \in 1..Len(keyItems'), j \in 1..Len(keyItems') :
                i < j
                => /\ HasNoExpiry(keyItems'[i].Item) => HasNoExpiry(keyItems'[j].Item)
                   /\ (~HasNoExpiry(keyItems'[i].Item) /\ ~HasNoExpiry(keyItems'[j].Item))
                        => keyItems'[i].Item.Expiry <= keyItems'[j].Item.Expiry
      ]_vars

\* C27: the eviction goroutine leaves its loop only when the stop channel is
\* closed, the stop channel is closed only by a Close call, a goroutine that
\* has returned does not run again, and with the stop channel open the
\* goroutine is in its loop.
C27_LoopStopsOnlyOnClose ==
    [][ /\ (loop # "stopped" /\ loop' = "stopped")
            => (stopCh = "closed" /\ loop = "select" /\ items' = items)
        /\ (loop = "stopped") => (loop' = "stopped")
        /\ (stopCh = "open" /\ stopCh' = "closed")
            => \E c \in Callers :
                 pc[c] = "idle" /\ pc'[c] = "done" /\ ret'[c].op = "Close"
        /\ (stopCh = "closed") => (stopCh' = "closed")
        /\ (stopCh' = "open") => (loop' \in {"select", "walk"})
      ]_vars

\* The goroutine has swept an item away and, after Close, has returned.
C27_Witness ==
    /\ loop = "stopped"
    /\ stopCh = "closed"
    /\ \E k \in Keys : wr[k].del = "sweep"

\* C30: IsExpired depends on the item and the clock value alone: it is
\* false at every clock value for an item with the no-expiry flag; for any
\* other item it is true exactly at the clock values strictly after Expiry
\* (false at Expiry itself); once true it stays true at every later clock
\* value.
C30_IsExpiredStrictAndMonotone ==
    \A k \in DOMAIN items :
        \A t \in ClockValues :
            /\ items[k].NoExpiry => ~IsExpired(items[k], t)
            /\ ~items[k].NoExpiry => (IsExpired(items[k], t) <=> t > items[k].Expiry)
            /\ \A t2 \in ClockValues :
                 (t <= t2 /\ IsExpired(items[k], t)) => IsExpired(items[k], t2)

\* The sweep has removed an expired entry and stands at an entry whose
\* expiry is the present clock value, which it keeps.
C30_Witness ==
    /\ loop = "walk"
    /\ idx > 1 /\ idx <= Len(keyItems)
    /\ keyItems[1].Key \notin DOMAIN items
    /\ ~keyItems[idx].Item.NoExpiry
    /\ keyItems[idx].Item.Expiry = now
    /\ ~IsExpired(keyItems[idx].Item, now)
    /\ keyItems[idx].Key \in DOMAIN items

====
